---- MODULE Spec2Model ----
(***************************************************************************)
(* A model of the victron_mqtt Hub: the topic-to-entity resolution engine  *)
(* (placeholder buffering, full-publish barrier, formula activation),      *)
(* the Metric update/notification logic and the keepalive loop.            *)
(*                                                                         *)
(* Conventions                                                             *)
(*   - Python None is the empty tuple <<>>, a present value v is <<v>>.    *)
(*   - A topic is the sequence of its "/"-separated segments.              *)
(*   - A Python dict is an insertion-ordered sequence of <<key, value>>.   *)
(*   - A metric key (hub unique id "<type>_<device id>_<short id>") is the *)
(*     tuple <<type, device id, short id>>.                                *)
(*   - Client ids and echo tokens are sequences of symbols; the fixed      *)
(*     "victron_mqtt" literal and the 8-character random part are one      *)
(*     symbol each, decimal numbers are one symbol per digit.              *)
(*   - Power is in watts, time in seconds.  Accumulated energy is kept in   *)
(*     watt-seconds (3600 x the code's Wh); a formula metric's value is    *)
(*     the energy rounded to one decimal of a Wh, counted in tenths of Wh. *)
(***************************************************************************)
EXTENDS Integers, Sequences, FiniteSets, TLC

(***************************************************************************)
(* Bounds of the model                                                     *)
(***************************************************************************)
MaxKeepalive == 3
MaxQueue == 4
MaxOtherKeepalive == 1
OwnInstanceId == 1
MaxTick == 2
MaxPeriods == 2
MaxRepeatKeepalive == 7
MaxRepeatPeriods == 7
MaxConnects == 2
MaxPublished == 2
MaxTasks == 2
MaxRangeStart == 3
MaxRangeEnd == 10
CreatedBefore == 11
UpdateFrequency == 2
StartTime == 100

(***************************************************************************)
(* Program constants                                                       *)
(***************************************************************************)
SILENCE_MAX == 60
KEEPALIVE_SLEEP == 30
LRS_TIME_INTERVAL == 30
CONNECT_MAX_FAILED_ATTEMPTS == 3

(***************************************************************************)
(* Optional values and insertion-ordered dictionaries                      *)
(***************************************************************************)
None == <<>>
Some(x) == <<x>>
Get(o) == o[1]

DictKeys(d) == [i \in 1..Len(d) |-> d[i][1]]
DictHas(d, k) == \E i \in 1..Len(d) : d[i][1] = k
DictIndex(d, k) == CHOOSE i \in 1..Len(d) : d[i][1] = k
DictGet(d, k) == d[DictIndex(d, k)][2]
DictSet(d, k, v) ==
    IF DictHas(d, k) THEN [d EXCEPT ![DictIndex(d, k)] = <<k, v>>]
    ELSE Append(d, <<k, v>>)
DictValues(d) == [i \in 1..Len(d) |-> d[i][2]]

SeqToSet(s) == {s[i] : i \in 1..Len(s)}

\* F applied to the value of v, computed once
With(v, F(_)) == CHOOSE r \in {F(x) : x \in {v}} : TRUE
IsPrefix(p, s) == Len(p) <= Len(s) /\ SubSeq(s, 1, Len(p)) = p

(***************************************************************************)
(* Client identifiers and keepalive echo tokens                            *)
(***************************************************************************)
DigitChar == <<"0", "1", "2", "3", "4", "5", "6", "7", "8", "9">>

RECURSIVE Digits(_)
Digits(n) ==
    IF n < 10 THEN <<DigitChar[n + 1]>>
    ELSE Digits(n \div 10) \o <<DigitChar[(n % 10) + 1]>>

RandomStrings == {"ra", "rb"}
OtherInstanceIds == {2, 10}

MakeClientId(random_string, instance_id) ==
    <<"victron_mqtt", "-", random_string, "-">> \o Digits(instance_id)

KeepaliveEcho(cid, counter) == cid \o <<"-">> \o Digits(counter)

startswith(s, prefix) == IsPrefix(prefix, s)

(***************************************************************************)
(* Wire payloads: a JSON object with an optional "value" and an optional   *)
(* "full-publish-completed-echo", or text that is not JSON at all.         *)
(***************************************************************************)
\* The optional "min" and "max" of a payload are floats: a finite number or,
\* for a literal beyond the double range (1e999, Infinity), infinity.
Finite(n) == [inf |-> FALSE, n |-> n]
Infinity == [inf |-> TRUE, n |-> 0]

ValuePayload(v) == [json |-> TRUE, value |-> Some(v), echo |-> None, min |-> None, max |-> None]
NullPayload == [json |-> TRUE, value |-> None, echo |-> None, min |-> None, max |-> None]
MalformedPayload == [json |-> FALSE, value |-> None, echo |-> None, min |-> None, max |-> None]
CompletedPayload(echo) ==
    [json |-> TRUE, value |-> Some(42), echo |-> echo, min |-> None, max |-> None]
RangePayload(v, min, max) ==
    [json |-> TRUE, value |-> Some(v), echo |-> None, min |-> min, max |-> max]

unwrap_float(payload) ==
    IF ~payload.json THEN None ELSE payload.value

\* unwrap_float(payload, precision, "min") and unwrap_float(payload, precision, "max")
unwrap_float_min(payload) == IF ~payload.json THEN None ELSE payload.min
unwrap_float_max(payload) == IF ~payload.json THEN None ELSE payload.max

unwrap_bool(payload) ==
    IF ~payload.json THEN None
    ELSE IF payload.value = None THEN None
    ELSE Some(IF Get(payload.value) = 0 THEN FALSE ELSE TRUE)

\* unwrap_string: str(value) of a JSON string is the string.
unwrap_string_payload(payload) ==
    IF ~payload.json THEN None ELSE payload.value

Device_unwrap_payload(topic_desc, payload) ==
    IF topic_desc.value_type = "bool" THEN unwrap_bool(payload)
    ELSE IF topic_desc.value_type = "string" THEN unwrap_string_payload(payload)
    ELSE unwrap_float(payload)

(***************************************************************************)
(* Device types                                                            *)
(***************************************************************************)
DeviceTypeCodes ==
    {"system", "solarcharger", "inverter", "battery", "grid", "vebus",
     "evcharger", "pvinverter", "temperature", "generator", "Generator0",
     "Generator1", "tank", "multi", "CGwacs", "dcload", "alternator",
     "switch", "gps", "SystemSetup", "TransferSwitch", "digitalinput",
     "dcsystem", "Relay", "platform", "heatpump", "DynamicEss", "acload"}

DeviceTypeMappedToSystem == {"CGwacs", "Relay", "platform", "DynamicEss"}

DeviceType_from_code(code) ==
    IF code \notin DeviceTypeCodes THEN None
    ELSE IF code \in DeviceTypeMappedToSystem THEN Some("system")
    ELSE Some(code)

(***************************************************************************)
(* The topic table: representative descriptors of the kinds the engine     *)
(* distinguishes (plain sensor, adjustable number with a companion flag    *)
(* topic, formula).                                                        *)
(***************************************************************************)
TopicDescriptor(topic, message_type, short_id, value_type, is_adjustable_suffix, depends_on) ==
    [topic |-> topic, message_type |-> message_type, short_id |-> short_id,
     name |-> short_id, value_type |-> value_type,
     is_adjustable_suffix |-> is_adjustable_suffix, depends_on |-> depends_on,
     key_values |-> <<>>, is_formula |-> (topic[1] = "$$func"),
     experimental |-> FALSE, min_max_range |-> "static", min |-> None, max |-> None]

DescBatteryPower ==
    TopicDescriptor(<<"N", "{installation_id}", "system", "{device_id}", "Dc", "Battery", "Power">>,
                    "sensor", <<"system_dc_battery_power">>, "float", None, <<>>)

DescCurrentLimit ==
    TopicDescriptor(<<"N", "{installation_id}", "vebus", "{device_id}", "Ac", "ActiveIn", "CurrentLimit">>,
                    "number", <<"vebus_inverter_current_limit">>, "float",
                    Some("CurrentLimitIsAdjustable"), <<>>)

\* A formula over the formula below, listed ahead of it.
DescChargeEnergyTotal ==
    [TopicDescriptor(<<"$$func", "system", "system_dc_battery_charge_energy_total">>,
                     "sensor", <<"system_dc_battery_charge_energy_total">>, "float", None,
                     << <<"system_dc_battery_charge_energy">> >>)
        EXCEPT !.experimental = TRUE]

DescChargeEnergy ==
    TopicDescriptor(<<"$$func", "system", "system_dc_battery_charge_energy">>,
                    "sensor", <<"system_dc_battery_charge_energy">>, "float", None,
                    << <<"system_dc_battery_power">> >>)

DescServiceCounterReset ==
    TopicDescriptor(<<"W", "{installation_id}", "generator", "{device_id}", "ServiceCounterReset">>,
                    "service", <<"generator_service_counter_reset">>, "int", None, <<>>)

\* A number whose range comes with the payload.
DescAcPowerSetPoint ==
    [TopicDescriptor(<<"N", "{installation_id}", "settings", "{device_id}", "Settings",
                       "CGwacs", "AcPowerSetPoint">>,
                     "number", <<"system_ac_power_set_point">>, "float", None, <<>>)
        EXCEPT !.min_max_range = "dynamic"]

\* Regular descriptors with dependencies: the current needs the power metric
\* of its device, the time to go needs the current.
DescBatteryCurrent ==
    [TopicDescriptor(<<"N", "{installation_id}", "system", "{device_id}", "Dc", "Battery", "Current">>,
                     "sensor", <<"system_dc_battery_current">>, "float", None,
                     << <<"system", "{device_id}", <<"system_dc_battery_power">> >> >>)
        EXCEPT !.experimental = TRUE]

DescBatteryTimeToGo ==
    [TopicDescriptor(<<"N", "{installation_id}", "system", "{device_id}", "Dc", "Battery", "TimeToGo">>,
                     "sensor", <<"system_dc_battery_time_to_go">>, "float", None,
                     << <<"system", "{device_id}", <<"system_dc_battery_current">> >> >>)
        EXCEPT !.experimental = TRUE]

\* A name is a sequence of tokens.  The name of the tracker power carries
\* a moniker, "{tracker:solarcharger_tracker_{tracker}_name}": the key and,
\* after the colon, the short id of the metric whose value stands for it.
DescTrackerName ==
    [TopicDescriptor(<<"N", "{installation_id}", "solarcharger", "{device_id}", "Pv",
                       "{tracker}", "Name">>,
                     "sensor", <<"solarcharger_tracker_", "{tracker}", "_name">>, "string",
                     None, <<>>)
        EXCEPT !.name = <<"PV Tracker ", "{tracker}", " Name">>]

DescTrackerPower ==
    [TopicDescriptor(<<"N", "{installation_id}", "solarcharger", "{device_id}", "Pv",
                       "{tracker}", "P">>,
                     "sensor", <<"solarcharger_tracker_", "{tracker}", "_power">>, "float",
                     None, <<>>)
        EXCEPT !.name = <<"PV Tracker ", "{tracker:", "solarcharger_tracker_", "{tracker}",
                          "_name", "}", " Power">>]

topics ==
    <<DescBatteryPower, DescCurrentLimit, DescChargeEnergyTotal, DescChargeEnergy,
      DescServiceCounterReset, DescAcPowerSetPoint, DescBatteryCurrent, DescBatteryTimeToGo,
      DescTrackerName, DescTrackerPower>>

PlaceholderSegments ==
    {"{installation_id}", "{device_id}", "{device_type}", "{phase}", "{tracker}"}
DigitSegments == {"0", "1", "2", "123", "170"}
PhaseSegments == {"L1", "L2", "L3"}

isdigit(part) == part \in DigitSegments
IsPlaceholder(part) == part \in PlaceholderSegments

(***************************************************************************)
(* data_classes.py: the topic parser                                       *)
(***************************************************************************)
Raised == <<"!", "raised">>

topic_to_device_type(topic_parts) ==
    IF topic_parts[1] = "$$func" THEN
        (IF Len(topic_parts) < 2 THEN Raised ELSE DeviceType_from_code(topic_parts[2]))
    ELSE IF Len(topic_parts) = 3 /\ topic_parts[3] = "heartbeat" THEN Some("system")
    ELSE IF Len(topic_parts) < 2 THEN None
    ELSE IF Len(topic_parts) < 3 THEN Raised
    ELSE IF topic_parts[3] = "settings" THEN
        (IF Len(topic_parts) < 6 THEN Raised ELSE DeviceType_from_code(topic_parts[6]))
    ELSE DeviceType_from_code(topic_parts[3])

normalize_topic(topic_parts) ==
    [i \in 1..Len(topic_parts) |->
        IF topic_parts[i] \in PhaseSegments THEN "##phase##"
        ELSE IF isdigit(topic_parts[i]) THEN "##num##"
        ELSE topic_parts[i]]

ParsedTopic_from_topic(topic) ==
    IF Len(topic) < 3 THEN None
    ELSE IF Len(topic) = 3 /\ topic[3] # "heartbeat" THEN None
    ELSE
        LET device_type == topic_to_device_type(topic)
            wild1 == [topic EXCEPT ![2] = "##installation_id##"]
        IN  IF device_type = Raised THEN Raised
            ELSE IF device_type = None THEN None
            ELSE IF Len(topic) = 3 THEN
                Some([installation_id |-> topic[2], device_id |-> "0",
                      device_type |-> Get(device_type),
                      wildcards_with_device_type |-> normalize_topic(wild1),
                      wildcards_without_device_type |-> normalize_topic(wild1),
                      full_topic |-> topic])
            ELSE
                LET wild2 == [wild1 EXCEPT ![4] = "##device_id##"]
                    wild3 == [wild2 EXCEPT ![3] = "##device_type##"]
                IN  Some([installation_id |-> topic[2], device_id |-> topic[4],
                          device_type |-> Get(device_type),
                          wildcards_with_device_type |-> normalize_topic(wild2),
                          wildcards_without_device_type |-> normalize_topic(wild3),
                          full_topic |-> topic])

\* get_key_values: the key of a placeholder keeps its braces in the model.
get_key_values(full_topic, desc_topic) ==
    [p \in {desc_topic[i] : i \in {j \in 1..Len(desc_topic) : IsPlaceholder(desc_topic[j])}} |->
        full_topic[CHOOSE i \in 1..Len(desc_topic) : desc_topic[i] = p]]

replace_ids(parts, key_values) ==
    [i \in 1..Len(parts) |->
        IF parts[i] \in DOMAIN key_values THEN key_values[parts[i]] ELSE parts[i]]

ParsedTopic_short_id(parsed_topic, topic_desc) ==
    replace_ids(topic_desc.short_id, get_key_values(parsed_topic.full_topic, topic_desc.topic))

make_device_short_unique_id(device_type, device_id) == <<device_type, device_id>>
make_hub_unique_id(device_short_unique_id, short_id) == Append(device_short_unique_id, short_id)

\* ParsedTopic.hub_unique_id after finalize_topic_fields(topic_desc)
ParsedTopic_hub_unique_id(parsed_topic, topic_desc) ==
    make_hub_unique_id(
        make_device_short_unique_id(parsed_topic.device_type, parsed_topic.device_id),
        ParsedTopic_short_id(parsed_topic, topic_desc))

match_from_list(parsed_topic, topic_desc_list) ==
    LET normalized_topic ==
            [parsed_topic.full_topic EXCEPT ![2] = "{installation_id}", ![4] = "{device_id}"]
        hits == SelectSeq(topic_desc_list, LAMBDA d : d.topic = normalized_topic)
    IN  IF hits = <<>> THEN None ELSE Some(hits[1])

(***************************************************************************)
(* Program state                                                           *)
(***************************************************************************)
VARIABLES
    client_id,                \* Hub._client_id
    keepalive_counter,        \* Hub._keepalive_counter
    other_client_id,          \* _client_id of a second Hub on the same broker
    other_keepalive_counter,  \* its _keepalive_counter
    update_frequency_seconds, \* Hub._update_frequency_seconds (None or a number)
    conn,                     \* the client, its connection and the position of connect()
    operation_mode,           \* Hub._operation_mode
    expanded_topics,          \* Hub.__init__: the descriptors behind topic_map, fallback_map,
                              \* _subscription_list and _pending_formula_topics
    process,                  \* the module global running_client_id and the Hub() calls in progress
    keepalive_task,           \* Hub._keepalive_task and the asyncio tasks created for it
    call,                     \* a static or module-level function under examination: arguments, result
    devices,                  \* Hub._devices: short unique ids in creation order
    metrics_placeholders,     \* Hub._metrics_placeholders
    fallback_placeholders,    \* Hub._fallback_placeholders
    all_metrics,              \* Hub._all_metrics
    on_new_metric,            \* a callable is registered in Hub._on_new_metric
    first_refresh_event,      \* Hub._first_refresh_event is set
    first_full_publish,       \* Hub._first_full_publish
    on_message,               \* handler bound to the client: "normal" or "snapshot"
    loop_queue,               \* callbacks handed to loop.call_soon_threadsafe
    waiter,                   \* a caller of wait_for_first_refresh
    now,                      \* the wall clock
    keepalive_pc,             \* position of the keepalive task
    keepalive_count,          \* local "count" of _keepalive_loop
    keepalive_wake,           \* when the task's sleep(30) ends
    event,                    \* history: the last operation and its outcome
    new_metric_log,           \* history: how often on_new_metric ran, per key
    first_refresh_setter,     \* history: the callback that set _first_refresh_event
    last_notification         \* history: time of the last scheduled on_update per key

vars ==
    <<client_id, keepalive_counter, other_client_id, other_keepalive_counter,
      update_frequency_seconds, conn, operation_mode, expanded_topics, process,
      keepalive_task, call, devices,
      metrics_placeholders,
      fallback_placeholders, all_metrics, on_new_metric, first_refresh_event,
      first_full_publish, on_message, loop_queue, waiter, now, keepalive_pc,
      keepalive_count, keepalive_wake, event, new_metric_log, first_refresh_setter,
      last_notification>>

idVars ==
    <<client_id, other_client_id, update_frequency_seconds, conn, operation_mode,
      expanded_topics, process, keepalive_task, call>>
counterVars == <<keepalive_counter, other_keepalive_counter>>
engineVars ==
    <<devices, metrics_placeholders, fallback_placeholders, all_metrics,
      first_full_publish, last_notification>>
taskVars == <<keepalive_pc, keepalive_count, keepalive_wake>>
logVars == <<new_metric_log, first_refresh_setter>>

installation_id == Some("123")

\* No function is under examination.
NoCall == [fn |-> "", args |-> <<>>, result |-> None]

\* The engine's mutable part as threaded through one handler invocation.
EngineState ==
    [all_metrics |-> all_metrics, loop_queue |-> loop_queue,
     last_notification |-> last_notification]

\* new_metrics is a history field: the metrics a barrier had committed when
\* it handed over first_refresh_event.set.
Callback(cb, key, value, named, owner) ==
    [cb |-> cb, key |-> key, value |-> value, named |-> named, owner |-> owner,
     new_metrics |-> <<>>]

\* Variant: the callback is invoked where it stands, nothing reaches the loop.
call_soon_threadsafe_Inline(queue, callback) == queue

\* loop.call_soon_threadsafe(callback, *args)
call_soon_threadsafe(queue, callback) == Append(queue, callback)

(***************************************************************************)
(* formula_common.py: rolling left Riemann sum                             *)
(***************************************************************************)
Max(a, b) == IF a >= b THEN a ELSE b
Min(a, b) == IF a <= b THEN a ELSE b

\* round(value, 1) of an energy given in watt-seconds, in tenths of a Wh
round(accumulated_value) == (accumulated_value + 180) \div 360

LRSLastReading(timestamp, value, accumulated_value) ==
    [timestamp |-> timestamp, value |-> value, accumulated_value |-> accumulated_value]

get_lrs_input(metrics, depends_on) == DictGet(metrics, depends_on[1]).value

calculate_rolling_riemann_sum(current_reading, current_time, last_reading, time_interval) ==
    LET current_power == Max(0, current_reading)
    IN  IF last_reading = None THEN LRSLastReading(current_time, current_reading, 0)
        ELSE
            LET last == Get(last_reading)
                dt == Min(current_time - last.timestamp, time_interval)
                interval_energy == IF last.value > 0 THEN last.value * dt ELSE 0
            IN  LRSLastReading(current_time, current_power,
                               last.accumulated_value + interval_energy)

\* adjust_reading of the charge-energy formula
charge_adjust_reading(current_power) ==
    IF current_power < 0 THEN 0 ELSE current_power

left_riemann_sum_internal(metrics, depends_on, transient_state, persistent_state) ==
    LET current_reading == get_lrs_input(metrics, depends_on)
    IN  IF current_reading = None THEN None
        ELSE
            LET new_last_reading ==
                    calculate_rolling_riemann_sum(
                        charge_adjust_reading(Get(current_reading)), now,
                        transient_state, LRS_TIME_INTERVAL)
            IN  Some([value |-> new_last_reading.accumulated_value,
                      transient_state |-> Some(new_last_reading),
                      persistent_state |-> Some(new_last_reading.accumulated_value)])

(***************************************************************************)
(* metric.py / formula_metric.py                                           *)
(***************************************************************************)
NumericValueTypes == {"float", "int", "bool"}

Metric(cls, descriptor, hub_unique_id) ==
    [cls |-> cls, descriptor |-> descriptor, hub_unique_id |-> hub_unique_id,
     value |-> None, on_update |-> FALSE, depend_on_me |-> <<>>,
     last_update |-> 0, last_seen |-> 0, generic_short_id |-> None,
     name |-> descriptor.name, key_values |-> <<>>,
     depends_on |-> <<>>, transient_state |-> None, persistent_state |-> None,
     notified |-> None,     \* history: the value last handed to on_update
     write_topic |-> None]  \* WritableMetric._write_topic

RECURSIVE Metric_handle_message(_, _, _)
RECURSIVE FormulaMetric_handle_formula(_, _)
RECURSIVE NotifyDependents(_, _, _)

\* Variant: every handled value counts as changed.
Metric_changed_Always(self, value) == TRUE

\* Variant: only a differing value counts as changed, whatever the frequency.
Metric_changed_ValueOnly(self, value) == value # self.value

\* The "changed" flag of Metric._handle_message once the update frequency
\* has been taken into account.
Metric_changed(self, value) ==
    IF update_frequency_seconds = Some(0) THEN TRUE
    ELSE IF /\ update_frequency_seconds # None
            /\ value # None
            /\ self.descriptor.value_type \in NumericValueTypes
        THEN ~(now - self.last_update < Get(update_frequency_seconds))
    ELSE value # self.value

Metric_handle_message(st, key, value) ==
    With(DictGet(st.all_metrics, key), LAMBDA self :
    LET notify == Metric_changed(self, value) /\ self.on_update
        self1 == [self EXCEPT !.last_seen = now, !.value = value,
                              !.last_update = IF notify THEN now ELSE @,
                              !.notified = IF notify THEN Some(value) ELSE @]
    IN  NotifyDependents(
            [all_metrics |-> DictSet(st.all_metrics, key, self1),
             loop_queue |->
                IF notify
                THEN call_soon_threadsafe(st.loop_queue,
                                          Callback("on_update", key, value, TRUE, ""))
                ELSE st.loop_queue,
             last_notification |->
                IF notify THEN DictSet(st.last_notification, key, now)
                ELSE st.last_notification],
            key, 1))

\* Variant: dependent formula metrics are not told about the update.
NotifyDependents_None(st0, key, i) == st0

\* Variant: a metric that has lost its value leaves its dependents alone.
NotifyDependents_ValueOnly(st0, key, i) ==
    IF DictGet(st0.all_metrics, key).value = None THEN st0
    ELSE With(st0, LAMBDA st :
         With(DictGet(st.all_metrics, key).depend_on_me, LAMBDA depend_on_me :
            IF i > Len(depend_on_me) THEN st
            ELSE NotifyDependents(FormulaMetric_handle_formula(st, depend_on_me[i]),
                                  key, i + 1)))

NotifyDependents(st0, key, i) ==
    With(st0, LAMBDA st :
    With(DictGet(st.all_metrics, key).depend_on_me, LAMBDA depend_on_me :
        IF i > Len(depend_on_me) THEN st
        ELSE NotifyDependents(FormulaMetric_handle_formula(st, depend_on_me[i]), key, i + 1)))

FormulaMetric_handle_formula(st0, key) ==
    With(st0, LAMBDA st :
    With(DictGet(st.all_metrics, key), LAMBDA self :
    With(left_riemann_sum_internal(st.all_metrics, self.depends_on,
                                   self.transient_state, self.persistent_state),
         LAMBDA result :
        IF result = None THEN Metric_handle_message(st, key, None)
        ELSE
            LET self1 == [self EXCEPT !.transient_state = Get(result).transient_state,
                                      !.persistent_state = Get(result).persistent_state]
            IN  Metric_handle_message(
                    [st EXCEPT !.all_metrics = DictSet(@, key, self1)],
                    key, Some(round(Get(result).value))))))

(***************************************************************************)
(* hub.py: the lookup maps built by Hub.__init__                           *)
(***************************************************************************)
\* Hub.__init__: service descriptors are kept apart from the metric descriptors.
service_active_topics == SelectSeq(topics, LAMBDA d : d.message_type = "service")

\* Variant: the descriptor is kept as it is in every mode.
metrics_active_topic_Kept(mode, topic) == topic

\* Hub.__init__: in READ_ONLY mode a descriptor that is not an attribute, a
\* sensor or a binary sensor is copied with a read-only kind.
metrics_active_topic(mode, topic) ==
    IF mode # "read_only" \/ topic.message_type \in {"attribute", "sensor", "binary_sensor"}
    THEN topic
    ELSE [topic EXCEPT !.message_type = IF @ = "switch" THEN "binary_sensor" ELSE "sensor"]

\* metrics_active_topics as Hub.__init__ builds it for an operation mode.
active_topics(mode) ==
    LET metric_topics ==
            SelectSeq(topics, LAMBDA d : /\ ~(mode # "experimental" /\ d.experimental)
                                         /\ d.message_type # "service")
    IN  [i \in 1..Len(metric_topics) |-> metrics_active_topic(mode, metric_topics[i])]

metrics_active_topics == active_topics(operation_mode)

\* Hub.expand_topic_list.  A descriptor topic with a range placeholder is
\* written token by token: "output_{output(1-4)}" is the run
\* "output_", "{", "output", "(", "1", "-", "4", ")", "}" with one token per
\* decimal digit.
RangePunctuation == {"{", "}", "(", ")", "-"}

\* [a-zA-Z0-9_]+
IsWord(token) == token \notin RangePunctuation /\ ~IsPlaceholder(token)

\* \d
IsDigitChar(token) == \E n \in 1..10 : DigitChar[n] = token

\* \d+ : how many digit tokens start at position p.
RECURSIVE DigitRun(_, _)
DigitRun(tokens, p) ==
    IF p <= Len(tokens) /\ IsDigitChar(tokens[p]) THEN 1 + DigitRun(tokens, p + 1) ELSE 0

\* int(match.group(n))
RECURSIVE int(_)
int(digits) ==
    IF digits = <<>> THEN 0
    ELSE 10 * int(SubSeq(digits, 1, Len(digits) - 1))
         + ((CHOOSE n \in 1..10 : DigitChar[n] = digits[Len(digits)]) - 1)

\* str(i)
str(i) == Digits(i)

\* A match of \{([a-zA-Z0-9_]+)\((\d+)-(\d+)\)\} starting at token p, or None.
pattern_match(tokens, p) ==
    LET n1 == DigitRun(tokens, p + 3)
        q == p + 3 + n1
        n2 == DigitRun(tokens, q + 1)
        e == q + 1 + n2
    IN  IF /\ p + 2 <= Len(tokens)
           /\ tokens[p] = "{" /\ IsWord(tokens[p + 1]) /\ tokens[p + 2] = "("
           /\ n1 >= 1 /\ q <= Len(tokens) /\ tokens[q] = "-"
           /\ n2 >= 1 /\ e + 1 <= Len(tokens) /\ tokens[e] = ")" /\ tokens[e + 1] = "}"
        THEN Some([key |-> tokens[p + 1], start |-> int(SubSeq(tokens, p + 3, q - 1)),
                   end |-> int(SubSeq(tokens, q + 1, e - 1)), last |-> e + 1])
        ELSE None

\* list(pattern.finditer(td.topic)), from token p on.
RECURSIVE pattern_finditer(_, _)
pattern_finditer(tokens, p) ==
    IF p > Len(tokens) THEN <<>>
    ELSE IF pattern_match(tokens, p) # None
    THEN <<Get(pattern_match(tokens, p))>>
         \o pattern_finditer(tokens, Get(pattern_match(tokens, p)).last + 1)
    ELSE pattern_finditer(tokens, p + 1)

\* pattern.sub(repl, td.topic), from token p on: every match is replaced.
RECURSIVE pattern_sub(_, _, _)
pattern_sub(repl, tokens, p) ==
    IF p > Len(tokens) THEN <<>>
    ELSE IF pattern_match(tokens, p) # None
    THEN repl \o pattern_sub(repl, tokens, Get(pattern_match(tokens, p)).last + 1)
    ELSE <<tokens[p]>> \o pattern_sub(repl, tokens, p + 1)

\* range(start, stop)
range(start, stop) == [n \in 1..(IF stop > start THEN stop - start ELSE 0) |-> start + n - 1]

\* Variant: for i in range(start, end).
expand_range_Exclusive(start, end) == range(start, end)

\* for i in range(start, end+1)
expand_range(start, end) == range(start, end + 1)

\* The body of the loop over topic_list: the descriptors td expands to.
expand_topic(td) ==
    LET matches == pattern_finditer(td.topic, 1)
    IN  IF matches # <<>>
        THEN LET indices == expand_range(matches[1].start, matches[1].end)
             IN  [n \in 1..Len(indices) |->
                     [td EXCEPT !.topic = pattern_sub(str(indices[n]), td.topic, 1),
                                !.key_values = (matches[1].key :> str(indices[n]))]]
        ELSE <<td>>

RECURSIVE expand_topic_list_Loop(_, _)
\* for td in topic_list, from the n-th descriptor on.
expand_topic_list_Loop(topic_list, n) ==
    IF n > Len(topic_list) THEN <<>>
    ELSE expand_topic(topic_list[n]) \o expand_topic_list_Loop(topic_list, n + 1)

expand_topic_list(topic_list) == expand_topic_list_Loop(topic_list, 1)

\* expanded_topics = Hub.expand_topic_list(metrics_active_topics), per mode;
\* the variable expanded_topics holds the list of the hub's mode.
OperationModes == {"read_only", "full", "experimental"}
expanded_by_mode == [mode \in OperationModes |-> expand_topic_list(active_topics(mode))]

remove_placeholders_map(topic) ==
    [i \in 1..Len(topic) |->
        IF i = 2 THEN "##installation_id##"
        ELSE IF i = 3 /\ IsPlaceholder(topic[i]) THEN "##device_type##"
        ELSE IF i = 4 THEN "##device_id##"
        ELSE IF topic[i] = "{phase}" THEN "##phase##"
        ELSE IF isdigit(topic[i]) \/ IsPlaceholder(topic[i]) THEN "##num##"
        ELSE topic[i]]

merge_is_adjustable_suffix(desc) ==
    [desc.topic EXCEPT ![Len(desc.topic)] = Get(desc.is_adjustable_suffix)]

topic_map_get(key) ==
    LET desc_list == SelectSeq(expanded_topics,
            LAMBDA d : ~d.is_formula /\ remove_placeholders_map(d.topic) = key)
    IN  IF desc_list = <<>> THEN None ELSE Some(desc_list)

fallback_map_get(key) ==
    LET desc_list == SelectSeq(expanded_topics,
            LAMBDA d : /\ d.is_adjustable_suffix # None
                       /\ ~d.is_formula
                       /\ remove_placeholders_map(merge_is_adjustable_suffix(d)) = key)
    IN  IF desc_list = <<>> THEN None ELSE Some(desc_list)

pending_formula_topics == SelectSeq(expanded_topics, LAMBDA d : d.is_formula)

(***************************************************************************)
(* device.py                                                               *)
(***************************************************************************)
WritableKinds == {"switch", "number", "select", "button", "time"}

\* Variant: the write topic is the read topic itself.
WritableMetric_write_topic_Same(topic) == topic

\* WritableMetric.__init__: self._write_topic = "W" + topic[1:], for a topic
\* that starts with "N" (asserted).
WritableMetric_write_topic(topic) ==
    IF topic[1] = "N" THEN [topic EXCEPT ![1] = "W"] ELSE Raised

MetricPlaceholder(device, parsed_topic, topic_descriptor, payload, value) ==
    [device |-> device, full_topic |-> parsed_topic.full_topic,
     hub_unique_id |-> ParsedTopic_hub_unique_id(parsed_topic, topic_descriptor),
     key_values |-> get_key_values(parsed_topic.full_topic, topic_descriptor.topic),
     topic_descriptor |-> topic_descriptor, payload |-> payload, value |-> value]

FallbackPlaceholder(device, parsed_topic, topic_descriptor, value) ==
    [device |-> device, full_topic |-> parsed_topic.full_topic,
     hub_unique_id |-> ParsedTopic_hub_unique_id(parsed_topic, topic_descriptor),
     topic_descriptor |-> topic_descriptor, value |-> value]

\* Variant: every decoded value is buffered as a placeholder, whether or not
\* the metric already exists.
Device_handle_message_AlwaysPlaceholder(st, fallback_to_metric_topic, device, parsed_topic, topic_desc, payload) ==
    IF topic_desc.message_type = "attribute"
    THEN [kind |-> "attribute", st |-> st, placeholder |-> None]
    ELSE IF fallback_to_metric_topic THEN
        (IF unwrap_bool(payload) = None
         THEN [kind |-> "ignored", st |-> st, placeholder |-> None]
         ELSE [kind |-> "fallback", st |-> st,
               placeholder |-> Some(FallbackPlaceholder(device, parsed_topic, topic_desc,
                                                        Get(unwrap_bool(payload))))])
    ELSE IF Device_unwrap_payload(topic_desc, payload) = None
        THEN [kind |-> "ignored", st |-> st, placeholder |-> None]
    ELSE [kind |-> "placeholder", st |-> st,
          placeholder |-> Some(MetricPlaceholder(device, parsed_topic, topic_desc, payload,
                                                 Device_unwrap_payload(topic_desc, payload)))]

\* The result is what the hub does next: "attribute", "ignored" (null value),
\* "fallback", "metric" (routed to the existing metric) or "placeholder".
\* Variant: a null value is not dropped but handed to the committed metric.
Device_handle_message_NullForwarded(st, fallback_to_metric_topic, device, parsed_topic, topic_desc, payload) ==
    LET key == ParsedTopic_hub_unique_id(parsed_topic, topic_desc)
        value == Device_unwrap_payload(topic_desc, payload)
    IN  IF topic_desc.message_type = "attribute"
        THEN [kind |-> "attribute", st |-> st, placeholder |-> None]
        ELSE IF fallback_to_metric_topic
        THEN [kind |-> "ignored", st |-> st, placeholder |-> None]
        ELSE IF DictHas(st.all_metrics, key)
        THEN [kind |-> IF value = None THEN "ignored" ELSE "metric",
              st |-> Metric_handle_message(st, key, value), placeholder |-> None]
        ELSE IF value = None
        THEN [kind |-> "ignored", st |-> st, placeholder |-> None]
        ELSE [kind |-> "placeholder", st |-> st,
              placeholder |-> Some(MetricPlaceholder(device, parsed_topic, topic_desc,
                                                     payload, value))]

Device_handle_message(st, fallback_to_metric_topic, device, parsed_topic, topic_desc, payload) ==
    LET key == ParsedTopic_hub_unique_id(parsed_topic, topic_desc)
    IN  IF topic_desc.message_type = "attribute"
        THEN [kind |-> "attribute", st |-> st, placeholder |-> None]
        ELSE IF fallback_to_metric_topic THEN
            (IF unwrap_bool(payload) = None
             THEN [kind |-> "ignored", st |-> st, placeholder |-> None]
             ELSE [kind |-> "fallback", st |-> st,
                   placeholder |-> Some(FallbackPlaceholder(device, parsed_topic, topic_desc,
                                                            Get(unwrap_bool(payload))))])
        ELSE
            LET value == Device_unwrap_payload(topic_desc, payload)
            IN  IF value = None
                THEN [kind |-> "ignored", st |-> st, placeholder |-> None]
                ELSE IF DictHas(st.all_metrics, key)
                THEN [kind |-> "metric", st |-> Metric_handle_message(st, key, value),
                      placeholder |-> None]
                ELSE [kind |-> "placeholder", st |-> st,
                      placeholder |-> Some(MetricPlaceholder(device, parsed_topic, topic_desc,
                                                             payload, value))]

\* Variant: the two topics are compared whole, last segment included.
is_same_adjustable_topics_WholeTopic(topic, adjustable_topic) ==
    topic = adjustable_topic

is_same_adjustable_topics(topic, adjustable_topic) ==
    SubSeq(topic, 1, Len(topic) - 1) = SubSeq(adjustable_topic, 1, Len(adjustable_topic) - 1)

\* "Handle dynamic min/max range": int(max_value) and int(min_value) raise
\* OverflowError for an infinite float.  The descriptor with the range of
\* the payload, or Raised.
dynamic_min_max(new_topic_desc, payload) ==
    LET max_value == unwrap_float_max(payload)
        min_value == unwrap_float_min(payload)
    IN  IF new_topic_desc.min_max_range # "dynamic" THEN Some(new_topic_desc)
        ELSE IF max_value # None /\ Get(max_value).inf THEN Raised
        ELSE IF min_value # None /\ Get(min_value).inf THEN Raised
        ELSE Some([new_topic_desc EXCEPT
                      !.max = IF max_value # None THEN Some(Get(max_value).n) ELSE @,
                      !.min = IF min_value # None THEN Some(Get(min_value).n) ELSE @])

\* The new metric in an option, or Raised.
Device_create_metric_from_placeholder(metric_placeholder, fallback_placeholders_list) ==
    LET desc == metric_placeholder.topic_descriptor
        hits == SelectSeq(fallback_placeholders_list,
                    LAMBDA fp : is_same_adjustable_topics(fp.full_topic,
                                                          metric_placeholder.full_topic))
        adjusted ==
            IF desc.is_adjustable_suffix # None /\ hits # <<>> /\ ~hits[1].value
            THEN [desc EXCEPT !.message_type = "sensor"]
            ELSE desc
        ranged == dynamic_min_max(adjusted, metric_placeholder.payload)
        name == replace_ids(desc.name, metric_placeholder.key_values)
    IN  IF ranged = Raised THEN Raised
        ELSE
            LET new_topic_desc == Get(ranged)
            IN  IF new_topic_desc.message_type \in WritableKinds
                THEN Some([Metric("WritableMetric", new_topic_desc,
                                  metric_placeholder.hub_unique_id)
                              EXCEPT !.write_topic =
                                  Some(WritableMetric_write_topic(metric_placeholder.full_topic)),
                                     !.name = name, !.key_values = metric_placeholder.key_values])
                ELSE Some([Metric("Metric", new_topic_desc, metric_placeholder.hub_unique_id)
                              EXCEPT !.name = name,
                                     !.key_values = metric_placeholder.key_values])

Device_add_formula_metric(device, topic_desc) ==
    Metric(IF topic_desc.message_type \in WritableKinds
           THEN "WritableFormulaMetric" ELSE "FormulaMetric",
           topic_desc, make_hub_unique_id(device, topic_desc.short_id))

(***************************************************************************)
(* hub.py: normal messages                                                 *)
(***************************************************************************)
device_of(parsed_topic) ==
    make_device_short_unique_id(parsed_topic.device_type, parsed_topic.device_id)

get_or_create_device(devs, parsed_topic) ==
    IF device_of(parsed_topic) \in SeqToSet(devs) THEN devs
    ELSE Append(devs, device_of(parsed_topic))

Unhandled(kind) ==
    [kind |-> kind, key |-> None, devices |-> devices, st |-> EngineState,
     metrics_placeholders |-> metrics_placeholders,
     fallback_placeholders |-> fallback_placeholders]

\* Variant: a placeholder already buffered for the key is kept.
metrics_placeholders_set_KeepFirst(buffer, key, placeholder) ==
    IF DictHas(buffer, key) THEN buffer ELSE DictSet(buffer, key, placeholder)

\* self._metrics_placeholders[placeholder.parsed_topic.hub_unique_id] =
\* placeholder: an existing entry is logged and replaced.
metrics_placeholders_set(buffer, key, placeholder) == DictSet(buffer, key, placeholder)

Hub_handle_normal_message(topic, payload) ==
    With(ParsedTopic_from_topic(topic), LAMBDA parsed :
        IF parsed = Raised THEN Unhandled("raised")
        ELSE IF parsed = None THEN Unhandled("unparsed")
        ELSE
            LET parsed_topic == Get(parsed)
                m1 == topic_map_get(parsed_topic.wildcards_with_device_type)
                m2 == topic_map_get(parsed_topic.wildcards_without_device_type)
                f1 == fallback_map_get(parsed_topic.wildcards_with_device_type)
                f2 == fallback_map_get(parsed_topic.wildcards_without_device_type)
                fallback_to_metric_topic == m1 = None /\ m2 = None
                desc_list == IF m1 # None THEN m1 ELSE IF m2 # None THEN m2
                             ELSE IF f1 # None THEN f1 ELSE f2
                desc0 == IF desc_list = None THEN None
                        ELSE IF Len(Get(desc_list)) = 1 THEN Some(Get(desc_list)[1])
                        ELSE match_from_list(parsed_topic, Get(desc_list))
            IN  With(desc0, LAMBDA desc :
                IF desc = None THEN Unhandled("no_descriptor")
                ELSE
                    With(Device_handle_message(EngineState, fallback_to_metric_topic,
                                               device_of(parsed_topic), parsed_topic,
                                               Get(desc), payload), LAMBDA r :
                    With(ParsedTopic_hub_unique_id(parsed_topic, Get(desc)), LAMBDA key :
                        [kind |-> r.kind, key |-> Some(key),
                         devices |-> get_or_create_device(devices, parsed_topic),
                         st |-> r.st,
                         metrics_placeholders |->
                            IF r.kind = "placeholder"
                            THEN metrics_placeholders_set(metrics_placeholders, key,
                                                          Get(r.placeholder))
                            ELSE metrics_placeholders,
                         fallback_placeholders |->
                            IF r.kind = "fallback"
                            THEN DictSet(fallback_placeholders, key, Get(r.placeholder))
                            ELSE fallback_placeholders]))))

(***************************************************************************)
(* hub.py: the full-publish barrier                                        *)
(***************************************************************************)
\* Variant: a dependency counts as met when a device of the same type, not
\* necessarily the formula's own device, has the metric.
is_formula_dependency_met_AnyDevice(metrics, topic, relevant_device) ==
    LET found(i) == {k \in SeqToSet(DictKeys(metrics)) :
                        k[1] = relevant_device[1] /\ k[3] = topic.depends_on[i]}
    IN  IF \A i \in 1..Len(topic.depends_on) : found(i) # {}
        THEN [is_met |-> TRUE,
              dependencies |-> [i \in 1..Len(topic.depends_on) |-> CHOOSE k \in found(i) : TRUE]]
        ELSE [is_met |-> FALSE, dependencies |-> <<>>]

\* Returns the pair (is_met, dependencies) as a record; the dependencies are
\* the keys of the metrics found.
is_formula_dependency_met(metrics, topic, relevant_device) ==
    LET metric_name(i) == make_hub_unique_id(relevant_device, topic.depends_on[i])
    IN  IF \A i \in 1..Len(topic.depends_on) : DictHas(metrics, metric_name(i))
        THEN [is_met |-> TRUE,
              dependencies |-> [i \in 1..Len(topic.depends_on) |-> metric_name(i)]]
        ELSE [is_met |-> FALSE, dependencies |-> <<>>]

\* The name a regular dependency stands for: the dependency is the hub-wide
\* id (device type, device id, short id) of the metric needed, with the
\* placeholders of the dependent topic in it.
dependency_metric_name(dependency, key_values) ==
    Append(replace_ids(SubSeq(dependency, 1, 2), key_values),
           replace_ids(dependency[3], key_values))

is_regular_dependency_met(metrics, metric_placeholder) ==
    \A i \in 1..Len(metric_placeholder.topic_descriptor.depends_on) :
        LET metric_name ==
                dependency_metric_name(metric_placeholder.topic_descriptor.depends_on[i],
                                       metric_placeholder.key_values)
        IN  DictHas(metrics, metric_name) \/ DictHas(metrics_placeholders, metric_name)

\* acc = [st, new_metrics, raised]; the loop over
\* self._metrics_placeholders.values().  An exception of add_placeholder ends
\* the loop and the handler; what the earlier rounds stored stays stored.
RECURSIVE CommitPlaceholders(_, _)
CommitPlaceholders(acc0, i) ==
    With(acc0, LAMBDA acc :
    IF i > Len(metrics_placeholders) THEN acc
    ELSE
        LET metric_placeholder == metrics_placeholders[i][2]
        IN  IF ~is_regular_dependency_met(acc.st.all_metrics, metric_placeholder)
            THEN CommitPlaceholders(acc, i + 1)
            ELSE
                With(Device_create_metric_from_placeholder(
                         metric_placeholder, DictValues(fallback_placeholders)), LAMBDA created :
                    IF created = Raised THEN [acc EXCEPT !.raised = TRUE]
                    ELSE
                        LET metric == Get(created)
                            key == metric.hub_unique_id
                            st1 == Metric_handle_message(
                                       [acc.st EXCEPT !.all_metrics = DictSet(@, key, metric)],
                                       key, metric_placeholder.value)
                        IN  CommitPlaceholders(
                                [acc EXCEPT !.st = st1,
                                            !.new_metrics = Append(@, key)], i + 1)))

\* Variant: the dependency is entered in its own list of dependents.
RECURSIVE add_dependency_Reflexive(_, _, _, _)
add_dependency_Reflexive(metrics, dependencies, formula_key, i) ==
    IF i > Len(dependencies) THEN metrics
    ELSE add_dependency_Reflexive(
            DictSet(metrics, dependencies[i],
                    [DictGet(metrics, dependencies[i]) EXCEPT
                        !.depend_on_me = Append(@, dependencies[i])]),
            dependencies, formula_key, i + 1)

RECURSIVE add_dependency(_, _, _, _)
add_dependency(metrics, dependencies, formula_key, i) ==
    IF i > Len(dependencies) THEN metrics
    ELSE add_dependency(
            DictSet(metrics, dependencies[i],
                    [DictGet(metrics, dependencies[i]) EXCEPT
                        !.depend_on_me = Append(@, formula_key)]),
            dependencies, formula_key, i + 1)

\* All (formula topic, device) pairs in the order of the two nested loops.
RECURSIVE FormulaCandidates(_, _)
FormulaCandidates(t, d) ==
    IF t > Len(pending_formula_topics) THEN <<>>
    ELSE IF d > Len(devices) THEN FormulaCandidates(t + 1, 1)
    ELSE (IF devices[d][1] = pending_formula_topics[t].topic[2]
          THEN << <<pending_formula_topics[t], devices[d]>> >> ELSE <<>>)
         \o FormulaCandidates(t, d + 1)

RECURSIVE ActivateFormulas(_, _, _)
ActivateFormulas(acc0, candidates, i) ==
    With(acc0, LAMBDA acc :
    IF i > Len(candidates) THEN acc
    ELSE
        LET topic == candidates[i][1]
            device == candidates[i][2]
            metric_name == make_hub_unique_id(device, topic.short_id)
        IN  IF DictHas(acc.st.all_metrics, metric_name)
            THEN ActivateFormulas(acc, candidates, i + 1)
            ELSE
                With(is_formula_dependency_met(acc.st.all_metrics, topic, device), LAMBDA met :
                    IF ~met.is_met THEN ActivateFormulas(acc, candidates, i + 1)
                    ELSE
                        LET metric == [Device_add_formula_metric(device, topic) EXCEPT
                                          !.depends_on = met.dependencies]
                            linked == add_dependency(acc.st.all_metrics, met.dependencies,
                                                     metric_name, 1)
                            st1 == FormulaMetric_handle_formula(
                                       [acc.st EXCEPT !.all_metrics =
                                            DictSet(linked, metric_name, metric)],
                                       metric_name)
                        IN  ActivateFormulas(
                                [st |-> st1,
                                 new_metrics |-> Append(acc.new_metrics, metric_name)],
                                candidates, i + 1)))

\* The token that opens a moniker, and the key it names.
MonikerKey == ("{tracker:" :> "{tracker}")

\* str(metric.value), for the string metrics a moniker refers to.
Metric_value_str(metric) ==
    IF metric.value = None THEN "None" ELSE Get(metric.value)

\* replace_complex_ids(orig_str, replace_match) with the replace_match of
\* Metric._replace_ids, from token p on: a moniker becomes the value of the
\* metric "<device_id>_<suffix>" if all_metrics has it, and that value is
\* stored under the key; otherwise it becomes the key's value.
\* acc = [name, key_values].
RECURSIVE replace_complex_ids(_, _, _, _, _)
replace_complex_ids(tokens, p, device_id, metrics, acc) ==
    IF p > Len(tokens) THEN acc
    ELSE
        LET closing == {j \in (p + 1)..Len(tokens) : tokens[j] = "}"}
        IN  IF tokens[p] \in DOMAIN MonikerKey /\ closing # {}
            THEN
                LET j == CHOOSE c \in closing : \A d \in closing : c <= d
                    key == MonikerKey[tokens[p]]
                    metric_name == make_hub_unique_id(device_id, SubSeq(tokens, p + 1, j - 1))
                IN  IF DictHas(metrics, metric_name)
                    THEN LET result == Metric_value_str(DictGet(metrics, metric_name))
                         IN  replace_complex_ids(tokens, j + 1, device_id, metrics,
                                 [name |-> Append(acc.name, result),
                                  key_values |-> (key :> result) @@ acc.key_values])
                    ELSE replace_complex_ids(tokens, j + 1, device_id, metrics,
                             [acc EXCEPT !.name = Append(@, acc.key_values[key])])
            ELSE replace_complex_ids(tokens, p + 1, device_id, metrics,
                                     [acc EXCEPT !.name = Append(@, tokens[p])])

\* Metric._replace_ids: [name, key_values]
Metric_replace_ids(orig_str, device_id, metrics, key_values) ==
    LET temp == replace_complex_ids(orig_str, 1, device_id, metrics,
                                    [name |-> <<>>, key_values |-> key_values])
    IN  IF temp.name # orig_str THEN temp
        ELSE [name |-> replace_ids(orig_str, key_values), key_values |-> key_values]

\* Variant: the second-phase naming is left out.
phase2_init_Skipped(metric, device_id, metrics) == metric

\* Variant: the name is resolved against the metrics known before the
\* barrier, the metric itself apart.
phase2_init_Early(metric, device_id, metrics) ==
    LET name_temp == replace_ids(metric.descriptor.name, metric.key_values)
        replaced == Metric_replace_ids(name_temp, device_id, all_metrics, metric.key_values)
    IN  [metric EXCEPT !.name = replaced.name, !.key_values = replaced.key_values,
                       !.generic_short_id = Some(metric.descriptor.short_id)]

phase2_init(metric, device_id, metrics) ==
    LET name_temp == replace_ids(metric.descriptor.name, metric.key_values)
        replaced == Metric_replace_ids(name_temp, device_id, metrics, metric.key_values)
    IN  [metric EXCEPT !.name = replaced.name, !.key_values = replaced.key_values,
                       !.generic_short_id = Some(metric.descriptor.short_id)]

\* The loop "for device, metric in new_metrics": phase-2 naming, then the
\* on_new_metric callback is handed to the event loop.
RECURSIVE SendNewMetrics(_, _, _)
SendNewMetrics(st0, new_metrics, i) ==
    With(st0, LAMBDA st :
    IF i > Len(new_metrics) THEN st
    ELSE
        LET key == new_metrics[i]
            metric == phase2_init(DictGet(st.all_metrics, key), SubSeq(key, 1, 2),
                                  st.all_metrics)
            st1 == [st EXCEPT !.all_metrics = DictSet(@, key, metric)]
            st2 == IF on_new_metric
                   THEN [st1 EXCEPT !.loop_queue =
                            call_soon_threadsafe(@,
                                Callback("on_new_metric", key, None,
                                         metric.generic_short_id # None, ""))]
                   ELSE st1
        IN  SendNewMetrics(st2, new_metrics, i + 1))

get_keepalive_echo(payload) == IF ~payload.json THEN Raised ELSE payload.echo

IsOurEcho(echo) ==
    ~(echo # None /\ Get(echo) # <<>> /\ ~startswith(Get(echo), client_id))

Hub_handle_full_publish_message(payload, owner) ==
    LET echo == get_keepalive_echo(payload)
    IN  IF echo = Raised
        THEN [processed |-> FALSE, raised |-> TRUE, st |-> EngineState, new_metrics |-> <<>>]
        ELSE IF ~IsOurEcho(echo)
        THEN [processed |-> FALSE, raised |-> FALSE, st |-> EngineState,
              new_metrics |-> <<>>]
        ELSE
            With(IF Len(metrics_placeholders) > 0
                 THEN CommitPlaceholders(
                          [st |-> EngineState, new_metrics |-> <<>>, raised |-> FALSE], 1)
                 ELSE [st |-> EngineState, new_metrics |-> <<>>, raised |-> FALSE],
                 LAMBDA committed :
            IF committed.raised
            THEN [processed |-> FALSE, raised |-> TRUE, st |-> committed.st,
                  new_metrics |-> <<>>]
            ELSE
            With(IF Len(committed.new_metrics) > 0
                 THEN ActivateFormulas(committed, FormulaCandidates(1, 1), 1)
                 ELSE committed, LAMBDA activated :
            With(SendNewMetrics(activated.st, activated.new_metrics, 1), LAMBDA sent :
                [processed |-> TRUE, raised |-> FALSE,
                 st |-> [sent EXCEPT !.loop_queue =
                            call_soon_threadsafe(@,
                                [Callback("first_refresh_event.set", None, None, TRUE, owner)
                                 EXCEPT !.new_metrics = activated.new_metrics])],
                 new_metrics |-> activated.new_metrics])))

(***************************************************************************)
(* metric.py / hub.py: the periodic keepalive pass over all metrics        *)
(***************************************************************************)
\* Variant: the threshold ignores the configured update frequency.
silence_timeout_Fixed == SILENCE_MAX

silence_timeout ==
    IF update_frequency_seconds # None
    THEN Min(SILENCE_MAX, Get(update_frequency_seconds) * 3)
    ELSE SILENCE_MAX

Metric_keepalive(st, key) ==
    LET self == DictGet(st.all_metrics, key)
        elapsed == now - self.last_seen
    IN  IF self.cls = "WritableFormulaMetric" THEN st
        ELSE IF elapsed > silence_timeout THEN Metric_handle_message(st, key, None)
        ELSE IF self.last_seen > self.last_update
            THEN Metric_handle_message(st, key, self.value)
        ELSE st

RECURSIVE keepalive_metrics(_, _)
keepalive_metrics(st0, i) ==
    With(st0, LAMBDA st :
        IF i > Len(st.all_metrics) THEN st
        ELSE keepalive_metrics(Metric_keepalive(st, st.all_metrics[i][1]), i + 1))

(***************************************************************************)
(* Messages delivered by the broker                                        *)
(***************************************************************************)
TopicPower == <<"N", "123", "system", "0", "Dc", "Battery", "Power">>
TopicLimit == <<"N", "123", "vebus", "170", "Ac", "ActiveIn", "CurrentLimit">>
TopicFlag == <<"N", "123", "vebus", "170", "Ac", "ActiveIn", "CurrentLimitIsAdjustable">>
TopicPowerOther == <<"N", "123", "system", "1", "Dc", "Battery", "Power">>
TopicUnknown == <<"N", "123", "system", "0", "Dc", "Battery", "Voltage">>
TopicShort == <<"N", "123">>
TopicSettingsShort == <<"N", "123", "settings", "0", "Settings">>
TopicCompleted == <<"N", "123", "full_publish_completed">>

KeyPower == <<"system", "0", <<"system_dc_battery_power">> >>
KeyLimit == <<"vebus", "170", <<"vebus_inverter_current_limit">> >>
KeyChargeEnergy == <<"system", "0", <<"system_dc_battery_charge_energy">> >>

\* The handler that took loop_queue from "before" to "after" handed cb to
\* loop.call_soon_threadsafe.
ScheduledIn(before, after, cb) ==
    \E q \in (Len(before) + 1)..Len(after) : after[q] = cb

Event(op, kind, key, value, owner, new_metrics) ==
    [op |-> op, kind |-> kind, key |-> key, value |-> value, owner |-> owner,
     new_metrics |-> new_metrics]

\* The thread an operation runs on.  Hub.connect() starts the client's
\* network thread (client.loop_start()), which invokes Hub._on_message; the
\* keepalive task, the scheduled callbacks and the application's own calls
\* run on the event loop.
ExecutionContext(op) ==
    IF op \in {"message", "completed", "snapshot_message"} THEN "transport"
    ELSE "loop"

(***************************************************************************)
(* Actions                                                                 *)
(***************************************************************************)
\* Variant: the handler runs without the try/except around it.
Hub_on_message_Unguarded(raised) == IF raised THEN "propagated" ELSE "handled"

\* Hub._on_message: an exception of _on_message_internal is logged, and the
\* callback returns to the client's network loop.
Hub_on_message(raised) == IF raised THEN "caught" ELSE "handled"

\* Hub._on_message for full_publish_completed
OnFullPublishCompleted(payload, owner) ==
    \E b \in {Hub_handle_full_publish_message(payload, owner)} :
        /\ Len(b.st.loop_queue) <= MaxQueue
        /\ all_metrics' = b.st.all_metrics
        /\ loop_queue' = b.st.loop_queue
        /\ last_notification' = b.st.last_notification
        /\ metrics_placeholders' = IF b.processed THEN <<>> ELSE metrics_placeholders
        /\ fallback_placeholders' = IF b.processed THEN <<>> ELSE fallback_placeholders
        /\ first_full_publish' = IF b.processed THEN FALSE ELSE first_full_publish
        /\ event' = Event("completed",
                          IF b.raised THEN Hub_on_message(TRUE)
                          ELSE IF b.processed THEN "processed" ELSE "ignored",
                          None, None, owner, b.new_metrics)
        /\ UNCHANGED <<devices, first_refresh_event, on_message, on_new_metric, waiter>>

\* Hub._on_message for every other topic.  The installation id is known
\* once connect() has returned, so _handle_installation_id_message is not run.
OnNormalMessage(topic, payload) ==
    \E n \in {Hub_handle_normal_message(topic, payload)} :
        /\ Len(n.st.loop_queue) <= MaxQueue
        /\ devices' = n.devices
        /\ all_metrics' = n.st.all_metrics
        /\ loop_queue' = n.st.loop_queue
        /\ last_notification' = n.st.last_notification
        /\ metrics_placeholders' = n.metrics_placeholders
        /\ fallback_placeholders' = n.fallback_placeholders
        /\ event' = IF n.kind \in {"metric", "placeholder", "fallback"}
                     THEN Event("message", n.kind, n.key,
                                IF n.kind = "metric" THEN payload.value ELSE None, "", <<>>)
                     ELSE Event("message",
                                IF n.kind = "raised" THEN Hub_on_message(TRUE)
                                ELSE "dropped", None, None, "", <<>>)
        /\ UNCHANGED <<first_full_publish, first_refresh_event, on_message,
                       on_new_metric, waiter>>

\* Hub._on_snapshot_message: the raw snapshot dictionary is not modelled.
OnSnapshotMessage(topic, payload, owner) ==
    LET completed == \E i \in 1..Len(topic) : topic[i] = "full_publish_completed"
    IN  /\ completed => Len(loop_queue) < MaxQueue
        /\ loop_queue' =
              IF completed
              THEN call_soon_threadsafe(loop_queue,
                                        Callback("first_refresh_event.set", None,
                                                 None, FALSE, owner))
              ELSE loop_queue
        /\ event' = Event("snapshot_message", IF completed THEN "completed" ELSE "stored",
                          None, None, owner, <<>>)
        /\ UNCHANGED <<engineVars, first_refresh_event, on_message, on_new_metric, waiter>>

\* The handler bound to client.on_message runs on the transport thread.
OnMessage(topic, payload, owner) ==
    /\ IF on_message = "snapshot" THEN OnSnapshotMessage(topic, payload, owner)
       ELSE IF \E i \in 1..Len(topic) : topic[i] = "full_publish_completed"
           THEN OnFullPublishCompleted(payload, owner)
       ELSE OnNormalMessage(topic, payload)
    /\ UNCHANGED <<idVars, counterVars, taskVars, now, logVars>>

CompletedNoEcho == OnMessage(TopicCompleted, CompletedPayload(None), "none")

\* A completion whose payload is not JSON.
CompletedMalformed == OnMessage(TopicCompleted, MalformedPayload, "")

CompletedOwnEcho ==
    \E k \in 1..keepalive_counter :
        OnMessage(TopicCompleted, CompletedPayload(Some(KeepaliveEcho(client_id, k))), "own")

CompletedOtherEcho ==
    \E k \in 1..other_keepalive_counter :
        OnMessage(TopicCompleted,
                  CompletedPayload(Some(KeepaliveEcho(other_client_id, k))), "other")

\* Hub._keepalive: send a keepalive carrying a fresh echo token.
Hub_keepalive == keepalive_counter' = keepalive_counter + 1

\* First iteration of Hub._keepalive_loop up to its sleep(30).
KeepaliveStart ==
    /\ keepalive_pc = "start"
    /\ keepalive_counter < MaxKeepalive
    /\ Hub_keepalive
    /\ keepalive_pc' = "sleep"
    /\ keepalive_wake' = now + KEEPALIVE_SLEEP
    /\ event' = Event("keepalive", "start", None, None, "", <<>>)
    /\ UNCHANGED <<idVars, other_keepalive_counter, engineVars, loop_queue, keepalive_count,
                   first_refresh_event, on_message, on_new_metric, waiter, now,
                   logVars>>

\* The sleep ends: count, every second time the metrics pass, next keepalive.
KeepaliveWakeWithin(max_keepalive) ==
    \E st \in {IF (keepalive_count + 1) % 2 = 0
               THEN keepalive_metrics(EngineState, 1) ELSE EngineState} :
        /\ keepalive_pc = "sleep"
        /\ now >= keepalive_wake
        /\ keepalive_counter < max_keepalive
        /\ Len(st.loop_queue) <= MaxQueue
        /\ keepalive_count' = keepalive_count + 1
        /\ all_metrics' = st.all_metrics
        /\ loop_queue' = st.loop_queue
        /\ last_notification' = st.last_notification
        /\ Hub_keepalive
        /\ keepalive_wake' = now + KEEPALIVE_SLEEP
        /\ event' = Event("keepalive", IF (keepalive_count + 1) % 2 = 0 THEN "metrics" ELSE "send",
                          None, None, "", <<>>)
        /\ UNCHANGED <<idVars, other_keepalive_counter, devices, metrics_placeholders,
                       fallback_placeholders, first_full_publish, keepalive_pc,
                       first_refresh_event, on_message, on_new_metric, waiter, now,
                       logVars>>

KeepaliveWake == KeepaliveWakeWithin(MaxKeepalive)

\* The second Hub sends its own keepalive.
OtherHubKeepalive ==
    /\ other_keepalive_counter < MaxOtherKeepalive
    /\ other_keepalive_counter' = other_keepalive_counter + 1
    /\ event' = Event("other_keepalive", "", None, None, "other", <<>>)
    /\ UNCHANGED <<idVars, keepalive_counter, engineVars, taskVars, loop_queue,
                   first_refresh_event, on_message, on_new_metric, waiter, now,
                   logVars>>

Calls(key) == IF key \in DOMAIN new_metric_log THEN new_metric_log[key] ELSE 0

\* The event loop runs the callback at the head of its queue.
LoopRun ==
    LET head == loop_queue[1]
    IN  /\ loop_queue # <<>>
        /\ loop_queue' = Tail(loop_queue)
        /\ new_metric_log' =
              IF head.cb = "on_new_metric"
              THEN [k \in DOMAIN new_metric_log \cup {head.key} |->
                        IF k = head.key THEN Calls(head.key) + 1 ELSE new_metric_log[k]]
              ELSE new_metric_log
        /\ first_refresh_event' =
              IF head.cb = "first_refresh_event.set" THEN TRUE ELSE first_refresh_event
        /\ first_refresh_setter' =
              IF head.cb = "first_refresh_event.set" /\ ~first_refresh_event
              THEN Some(head) ELSE first_refresh_setter
        /\ event' = Event("loop", head.cb, head.key, head.value, head.owner, <<>>)
        /\ UNCHANGED <<idVars, counterVars, engineVars, taskVars, on_message,
                       on_new_metric, waiter, now>>

\* The application assigns Hub.on_new_metric.
SetOnNewMetric ==
    /\ on_new_metric' = ~on_new_metric
    /\ event' = Event("set_on_new_metric", "", None, None, "", <<>>)
    /\ UNCHANGED <<idVars, counterVars, engineVars, taskVars, loop_queue,
                   first_refresh_event, on_message, waiter, now, logVars>>

\* The application assigns Metric.on_update of a metric it was told about.
SetOnUpdate(key) ==
    /\ DictHas(all_metrics, key)
    /\ ~DictGet(all_metrics, key).on_update
    /\ all_metrics' = DictSet(all_metrics, key,
                              [DictGet(all_metrics, key) EXCEPT !.on_update = TRUE])
    /\ event' = Event("set_on_update", "", Some(key), None, "", <<>>)
    /\ UNCHANGED <<idVars, counterVars, devices, metrics_placeholders,
                   fallback_placeholders, first_full_publish, last_notification,
                   taskVars, loop_queue, first_refresh_event, on_message,
                   on_new_metric, waiter, now, logVars>>

SetOnUpdateAny == \E key \in {KeyPower, KeyChargeEnergy} : SetOnUpdate(key)

\* Hub.wait_for_first_refresh: a caller starts to wait for the event ...
WaitForFirstRefresh ==
    /\ waiter = "idle"
    /\ waiter' = "waiting"
    /\ event' = Event("wait_for_first_refresh", "", None, None, "", <<>>)
    /\ UNCHANGED <<idVars, counterVars, engineVars, taskVars, loop_queue,
                   first_refresh_event, on_message, on_new_metric, now, logVars>>

\* ... and resumes once the event is set.
WaiterResume ==
    /\ waiter = "waiting"
    /\ first_refresh_event
    /\ waiter' = "released"
    /\ event' = Event("first_refresh", "released", None, None,
                      Get(first_refresh_setter).owner, <<>>)
    /\ UNCHANGED <<idVars, counterVars, engineVars, taskVars, loop_queue,
                   first_refresh_event, on_message, on_new_metric, now, logVars>>

\* Hub.create_full_raw_snapshot up to its wait for the first refresh.
CreateFullRawSnapshot ==
    /\ waiter = "idle"
    /\ on_message = "normal"
    /\ keepalive_counter < MaxKeepalive
    /\ first_refresh_event' = FALSE
    /\ first_refresh_setter' = None
    /\ on_message' = "snapshot"
    /\ Hub_keepalive
    /\ waiter' = "waiting"
    /\ event' = Event("create_full_raw_snapshot", "", None, None, "", <<>>)
    /\ UNCHANGED <<idVars, other_keepalive_counter, engineVars, taskVars, loop_queue,
                   on_new_metric, now, new_metric_log>>

\* time.time() advances.
Tick(d) ==
    /\ now' = now + d
    /\ event' = Event("tick", "", None, None, "", <<>>)
    /\ UNCHANGED <<idVars, counterVars, engineVars, taskVars, loop_queue,
                   first_refresh_event, on_message, on_new_metric, waiter, logVars>>

TickSecond ==
    /\ (now + 1 - StartTime) % KEEPALIVE_SLEEP <= MaxTick
    /\ Tick(1)

TickSleepWithin(periods) ==
    /\ now + KEEPALIVE_SLEEP <= StartTime + KEEPALIVE_SLEEP * periods + MaxTick
    /\ Tick(KEEPALIVE_SLEEP)

TickSleep == TickSleepWithin(MaxPeriods)

(***************************************************************************)
(* hub.py: the keepalive task handle                                       *)
(***************************************************************************)
\* Hub._keepalive_task (ref: None or the index of a task) and the tasks made
\* by asyncio.create_task(self._keepalive_loop()): "running", "cancelling"
\* (cancel() was requested, the CancelledError is not delivered yet),
\* "cancelled" and "finished".  raised is what the last start or stop call
\* raised; stopped_in is a history field: the states of the handle in which
\* _stop_keepalive_loop has been called.
KeepaliveTask == [ref |-> None, tasks |-> <<>>, raised |-> None, stopped_in |-> {}]

\* asyncio.Task.done()
Task_done(task) == task \in {"cancelled", "finished"}

\* asyncio.Task.cancel(): a no-op on a task that is done.
Task_cancel(task) == IF Task_done(task) THEN task ELSE "cancelling"

\* The state of the handle as a caller of _stop_keepalive_loop finds it.
TaskHandleState(k) ==
    IF k.ref # None THEN k.tasks[Get(k.ref)]
    ELSE IF k.tasks = <<>> THEN "never_started" ELSE "already_cancelled"

\* Hub._start_keep_alive_loop
Hub_start_keep_alive_loop(k) ==
    IF k.ref = None \/ Task_done(k.tasks[Get(k.ref)])
    THEN [k EXCEPT !.tasks = Append(@, "running"), !.ref = Some(Len(k.tasks) + 1),
                   !.raised = None]
    ELSE [k EXCEPT !.raised = None]

\* Variant: cancel() is called on whatever the attribute holds.
Hub_stop_keepalive_loop_Unchecked(k) ==
    IF k.ref # None
    THEN [k EXCEPT !.tasks[Get(k.ref)] = Task_cancel(@), !.ref = None, !.raised = None,
                   !.stopped_in = @ \cup {TaskHandleState(k)}]
    ELSE [k EXCEPT !.raised = Some("AttributeError"),
                   !.stopped_in = @ \cup {TaskHandleState(k)}]

\* Hub._stop_keepalive_loop
Hub_stop_keepalive_loop(k) ==
    IF k.ref # None
    THEN [k EXCEPT !.tasks[Get(k.ref)] = Task_cancel(@), !.ref = None, !.raised = None,
                   !.stopped_in = @ \cup {TaskHandleState(k)}]
    ELSE [k EXCEPT !.raised = None, !.stopped_in = @ \cup {TaskHandleState(k)}]

(***************************************************************************)
(* hub.py: connecting                                                      *)
(***************************************************************************)
TOPIC_INSTALLATION_ID == <<"N", "+", "system", "0", "Serial">>
TopicSerial == <<"N", "123", "system", "0", "Serial">>

\* Hub._remove_placeholders: every placeholder but {installation_id} becomes "+".
remove_placeholders(topic) ==
    [i \in 1..Len(topic) |->
        IF IsPlaceholder(topic[i]) /\ topic[i] # "{installation_id}" THEN "+" ELSE topic[i]]

\* Hub.__init__: self._subscription_list
subscription_list ==
    LET plain == SelectSeq(expanded_topics, LAMBDA d : ~d.is_formula)
        suffixed == SelectSeq(plain, LAMBDA d : d.is_adjustable_suffix # None)
    IN  [i \in 1..Len(plain) |-> remove_placeholders(plain[i].topic)]
        \o [i \in 1..Len(suffixed) |-> remove_placeholders(merge_is_adjustable_suffix(suffixed[i]))]

\* topic.replace("{installation_id}", self._installation_id)
replace_installation_id(topic, id) ==
    [i \in 1..Len(topic) |-> IF topic[i] = "{installation_id}" THEN id ELSE topic[i]]

\* The connection state of a Hub whose constructor got installation id `id`
\* (None or a present value) and whose connect() has not been called.
HubConnection(id) ==
    [client |-> TRUE,                   \* self._client is not None
     pc |-> "idle",                     \* position of connect()
     result |-> "pending",              \* how connect() ended
     connected_event |-> FALSE,         \* self._connected_event is set
     installation_id_event |-> FALSE,   \* self._installation_id_event is set
     connect_failed_attempts |-> 0,
     connect_failed |-> FALSE,
     first_connect |-> TRUE,
     installation_id |-> id,
     subscription_list |-> subscription_list,
     is_connected |-> FALSE,            \* self._client.is_connected()
     connects |-> 0,                    \* connections the broker accepted
     loop |-> <<>>,                     \* event setters handed to call_soon_threadsafe
     broker_subscriptions |-> {},       \* what the broker holds for this session
     published |-> <<>>,                \* history: the messages passed to client.publish
     requests |-> {}]                   \* history: every topic passed to client.subscribe

\* Hub._subscribe
Hub_subscribe(c, topic) ==
    [c EXCEPT !.requests = @ \cup {topic}, !.broker_subscriptions = @ \cup {topic}]

\* Hub._setup_subscriptions: the connection state it leaves and the exception
\* it raised, if any.
Hub_setup_subscriptions(c) ==
    IF c.first_connect THEN [conn |-> [c EXCEPT !.first_connect = FALSE], raised |-> ""]
    ELSE IF ~c.client THEN [conn |-> c, raised |-> "AssertionError"]
    ELSE IF ~c.is_connected THEN [conn |-> c, raised |-> "NotConnectedError"]
    ELSE
        LET listed == [c EXCEPT !.requests = @ \cup SeqToSet(c.subscription_list),
                                !.broker_subscriptions = @ \cup SeqToSet(c.subscription_list)]
        IN  IF c.installation_id = None THEN [conn |-> listed, raised |-> "AssertionError"]
            ELSE [conn |-> Hub_subscribe(listed, <<"N", Get(c.installation_id),
                                                   "full_publish_completed">>),
                  raised |-> ""]

\* Variant: connect() lets the exception through as it is.
connect_except_Unwrapped(exc) == exc

\* Hub.connect: except Exception as exc: raise CannotConnectError(...) from exc
connect_except(exc) == "CannotConnectError"

\* Hub.connect from the installation id on: replace the placeholder in the
\* subscription list, subscribe, start the keepalive task.
Hub_connect_subscribe(c) ==
    LET replaced == [c EXCEPT !.subscription_list =
                        [i \in 1..Len(@) |-> replace_installation_id(@[i], Get(c.installation_id))]]
        setup == Hub_setup_subscriptions(replaced)
    IN  IF setup.raised # ""
        THEN [setup.conn EXCEPT !.pc = "done", !.result = connect_except(setup.raised)]
        ELSE [setup.conn EXCEPT !.pc = "done", !.result = "completed"]

\* The state when Hub.connect() has returned.
ConnectedHub ==
    LET c == HubConnection(Some("123"))
    IN  Hub_connect_subscribe([c EXCEPT !.connected_event = TRUE, !.first_connect = FALSE,
                                        !.is_connected = TRUE, !.connects = 1])

connFrame ==
    UNCHANGED <<client_id, other_client_id, update_frequency_seconds, operation_mode, expanded_topics, process,
                call,
                counterVars,
                engineVars, keepalive_count, keepalive_wake, logVars, loop_queue,
                first_refresh_event, on_message, on_new_metric, waiter, now>>

\* Hub.connect up to its wait for the connection event.
Connect ==
    /\ conn.pc = "idle"
    /\ conn.client
    /\ conn' = [conn EXCEPT !.connect_failed_attempts = 0, !.connect_failed = FALSE,
                            !.pc = "wait_connect"]
    /\ event' = Event("connect", "started", None, None, "", <<>>)
    /\ UNCHANGED <<keepalive_pc, keepalive_task>>
    /\ connFrame

\* Hub._on_connect, called by the client's network thread for each connection
\* the broker answered with return code rc.
OnConnect(rc) ==
    /\ conn.pc # "idle"
    /\ ~conn.is_connected
    /\ conn.connects < MaxConnects
    /\ \E c \in {[conn EXCEPT !.is_connected = conn.client /\ rc = 0,
                              !.connects = @ + 1]} :
        IF ~c.client \/ rc # 0 THEN
            /\ conn' = c
            /\ event' = Event("on_connect", "ignored", None, None, "", <<>>)
        ELSE
            \E setup \in {Hub_setup_subscriptions(c)} :
                IF setup.raised # "" THEN
                    /\ conn' = setup.conn
                    /\ event' = Event("on_connect", "caught", None, None, setup.raised, <<>>)
                ELSE
                    /\ conn' = [setup.conn EXCEPT !.loop = Append(@, "connected_event.set")]
                    /\ event' = Event("on_connect", "handled", None, None, "", <<>>)
    /\ UNCHANGED <<keepalive_pc, keepalive_task>>
    /\ connFrame

\* Hub.on_connect_fail
OnConnectFail ==
    /\ conn.pc # "idle"
    /\ ~conn.is_connected
    /\ conn.connect_failed_attempts < CONNECT_MAX_FAILED_ATTEMPTS
    /\ conn' =
          IF conn.connect_failed_attempts + 1 >= CONNECT_MAX_FAILED_ATTEMPTS
          THEN [conn EXCEPT !.connect_failed_attempts = @ + 1, !.connect_failed = TRUE,
                            !.loop = Append(@, "connected_event.set")]
          ELSE [conn EXCEPT !.connect_failed_attempts = @ + 1]
    /\ event' = Event("on_connect_fail", "", None, None, "", <<>>)
    /\ UNCHANGED <<keepalive_pc, keepalive_task>>
    /\ connFrame

\* The connection breaks; the client's network thread will connect again.
\* Hub._on_disconnect only logs.  The session is clean: the broker forgets
\* its subscriptions.
ConnectionLost ==
    /\ conn.is_connected
    /\ conn' = [conn EXCEPT !.is_connected = FALSE, !.broker_subscriptions = {}]
    /\ event' = Event("on_disconnect", "", None, None, "", <<>>)
    /\ UNCHANGED <<keepalive_pc, keepalive_task>>
    /\ connFrame

\* The event loop runs an event setter handed over by the network thread.
ConnectLoopRun ==
    /\ conn.loop # <<>>
    /\ conn' = [conn EXCEPT
                  !.loop = Tail(@),
                  !.connected_event = @ \/ Head(conn.loop) = "connected_event.set",
                  !.installation_id_event = @ \/ Head(conn.loop) = "installation_id_event.set"]
    /\ event' = Event("loop", Head(conn.loop), None, None, "", <<>>)
    /\ UNCHANGED <<keepalive_pc, keepalive_task>>
    /\ connFrame

\* Hub._wait_for_connect: the 25 seconds pass before the event is set.
WaitForConnectTimeout ==
    /\ conn.pc = "wait_connect"
    /\ ~conn.connected_event
    /\ conn' = [conn EXCEPT !.pc = "done", !.result = connect_except("CannotConnectError")]
    /\ event' = Event("connect", "wait_for_connect_timeout", None, None, "", <<>>)
    /\ UNCHANGED <<keepalive_pc, keepalive_task>>
    /\ connFrame

\* Hub.connect resumes from _wait_for_connect and runs to its next wait or
\* to its end.
ConnectResume ==
    /\ conn.pc = "wait_connect"
    /\ conn.connected_event
    /\ \E c \in {IF ~conn.client \/ conn.connect_failed
                 THEN [conn EXCEPT !.pc = "done", !.result = connect_except("CannotConnectError")]
                 ELSE IF conn.installation_id # None THEN Hub_connect_subscribe(conn)
                 ELSE IF ~conn.is_connected
                 THEN [conn EXCEPT !.pc = "done", !.result = connect_except("NotConnectedError")]
                 ELSE [Hub_subscribe(conn, TOPIC_INSTALLATION_ID)
                          EXCEPT !.pc = "wait_installation_id"]} :
        /\ conn' = c
        /\ keepalive_pc' = IF c.result = "completed" THEN "start" ELSE keepalive_pc
        /\ keepalive_task' = IF c.result = "completed"
                           THEN Hub_start_keep_alive_loop(keepalive_task)
                           ELSE keepalive_task
        /\ event' = Event("connect", c.result, None, None, "", <<>>)
    /\ connFrame

\* Hub._on_message while the installation id is unknown:
\* _handle_installation_id_message.  The broker delivers what the session
\* subscribed to.
InstallationIdMessage(topic) ==
    /\ conn.client
    /\ conn.is_connected
    /\ TOPIC_INSTALLATION_ID \in conn.broker_subscriptions
    /\ conn.installation_id = None /\ ~conn.installation_id_event
    /\ Len(conn.loop) < MaxConnects
    /\ \E parsed_topic \in {ParsedTopic_from_topic(topic)} :
        IF parsed_topic = Raised THEN
            /\ event' = Event("message", Hub_on_message(TRUE), None, None, "", <<>>)
            /\ UNCHANGED conn
        ELSE IF parsed_topic = None THEN
            /\ event' = Event("message", "dropped", None, None, "", <<>>)
            /\ UNCHANGED conn
        ELSE
            /\ conn' = [conn EXCEPT !.installation_id = Some(Get(parsed_topic).installation_id),
                                    !.loop = Append(@, "installation_id_event.set")]
            /\ event' = Event("message", "installation_id", None, None, "", <<>>)
    /\ UNCHANGED <<keepalive_pc, keepalive_task>>
    /\ connFrame

\* Hub._read_installation_id: the 60 seconds pass before the event is set;
\* the TimeoutError is raised again and reaches connect()'s handler.
ReadInstallationIdTimeout ==
    /\ conn.pc = "wait_installation_id"
    /\ ~conn.installation_id_event
    /\ conn' = [conn EXCEPT !.pc = "done", !.result = connect_except("TimeoutError")]
    /\ event' = Event("connect", "read_installation_id_timeout", None, None, "", <<>>)
    /\ UNCHANGED <<keepalive_pc, keepalive_task>>
    /\ connFrame

\* Hub.connect resumes from _read_installation_id and runs to its end.
ConnectFinish ==
    /\ conn.pc = "wait_installation_id"
    /\ conn.installation_id_event
    /\ \E c \in {Hub_connect_subscribe(
                    IF conn.client
                    THEN [conn EXCEPT !.broker_subscriptions = @ \ {TOPIC_INSTALLATION_ID}]
                    ELSE conn)} :
        /\ conn' = c
        /\ keepalive_pc' = IF c.result = "completed" THEN "start" ELSE keepalive_pc
        /\ keepalive_task' = IF c.result = "completed"
                           THEN Hub_start_keep_alive_loop(keepalive_task)
                           ELSE keepalive_task
        /\ event' = Event("connect", c.result, None, None, "", <<>>)
    /\ connFrame

\* Hub.disconnect, called once connect() has started.
Disconnect ==
    /\ conn.client
    /\ conn.pc # "idle"
    /\ conn' = [conn EXCEPT !.client = FALSE, !.is_connected = FALSE,
                            !.broker_subscriptions = {}]
    /\ keepalive_pc' = "stopped"
    /\ keepalive_task' = Hub_stop_keepalive_loop(keepalive_task)
    /\ event' = Event("disconnect", "", None, None, "", <<>>)
    /\ connFrame

\* Hub.wait_for_first_refresh: the 60 seconds pass before the event is set.
WaitForFirstRefreshTimeout ==
    /\ waiter = "waiting"
    /\ ~first_refresh_event
    /\ waiter' = "CannotConnectError"
    /\ event' = Event("first_refresh", "timeout", None, None, "", <<>>)
    /\ UNCHANGED <<idVars, counterVars, engineVars, taskVars, loop_queue,
                   first_refresh_event, on_message, on_new_metric, now, logVars>>

(***************************************************************************)
(* hub.py / writable_metric.py: publishing                                 *)
(***************************************************************************)
\* The payload "": an empty text, which is not JSON.
EmptyPayload == MalformedPayload

\* WritableMetric._wrap_payload for the numeric value types:
\* json.dumps({"value": value})
WritableMetric_wrap_payload(topic_desc, value) ==
    [json |-> TRUE, value |-> value, echo |-> None, min |-> None, max |-> None]

\* Hub._publish: the connection state it leaves and the exception raised.
Hub_publish_message(c, topic, payload) ==
    IF ~c.client THEN [conn |-> c, raised |-> "AssertionError"]
    ELSE [conn |-> [c EXCEPT !.published = Append(@, [topic |-> topic, payload |-> payload])],
          raised |-> ""]

\* Variant: the short id is looked up among all descriptors.
service_topic_get_Any(short_id) ==
    LET hits == SelectSeq(topics, LAMBDA d : d.short_id = short_id)
    IN  IF hits = <<>> THEN None ELSE Some(hits[1])

\* self._service_active_topics.get(topic_short_id)
service_topic_get(short_id) ==
    LET hits == SelectSeq(service_active_topics, LAMBDA d : d.short_id = short_id)
    IN  IF hits = <<>> THEN None ELSE Some(hits[1])

\* topic_desc.topic.replace("{installation_id}", ...).replace("{device_id}", device_id)
publish_topic(topic_desc, id, device_id) ==
    [i \in 1..Len(topic_desc.topic) |->
        IF topic_desc.topic[i] = "{installation_id}" THEN id
        ELSE IF topic_desc.topic[i] = "{device_id}" THEN device_id
        ELSE topic_desc.topic[i]]

\* Hub.publish
Publish(short_id, device_id, value) ==
    /\ Len(conn.published) < MaxPublished
    /\ \E topic_desc \in {service_topic_get(short_id)} :
        IF topic_desc = None THEN
            /\ event' = Event("publish", "TopicNotFoundError", None, value, "", <<>>)
            /\ UNCHANGED conn
        ELSE IF conn.installation_id = None THEN
            /\ event' = Event("publish", "AssertionError", None, value, "", <<>>)
            /\ UNCHANGED conn
        ELSE
            \E p \in {Hub_publish_message(
                        conn,
                        publish_topic(Get(topic_desc), Get(conn.installation_id), device_id),
                        IF value # None
                        THEN WritableMetric_wrap_payload(Get(topic_desc), value)
                        ELSE EmptyPayload)} :
                /\ conn' = p.conn
                /\ event' = Event("publish", IF p.raised # "" THEN p.raised ELSE "published",
                                  None, value, "", <<>>)
    /\ UNCHANGED <<keepalive_pc, keepalive_task>>
    /\ connFrame

\* Variant: set() also stores the value in the metric, as an optimistic
\* local write would.
WritableMetric_set_Optimistic(key, value) ==
    /\ Len(conn.published) < MaxPublished
    /\ DictHas(all_metrics, key)
    /\ DictGet(all_metrics, key).cls = "WritableMetric"
    /\ \E self \in {DictGet(all_metrics, key)} :
        IF self.write_topic = None THEN
            /\ event' = Event("set", "AssertionError", Some(key), Some(value), "", <<>>)
            /\ UNCHANGED <<conn, all_metrics>>
        ELSE
            \E p \in {Hub_publish_message(
                        conn, Get(self.write_topic),
                        WritableMetric_wrap_payload(self.descriptor, Some(value)))} :
                /\ conn' = p.conn
                /\ all_metrics' = DictSet(all_metrics, key, [self EXCEPT !.value = Some(value)])
                /\ event' = Event("set", IF p.raised # "" THEN p.raised ELSE "published",
                                  Some(key), Some(value), "", <<>>)
    /\ UNCHANGED <<keepalive_pc, keepalive_task>>
    /\ UNCHANGED <<client_id, other_client_id, update_frequency_seconds, operation_mode,
                   expanded_topics, process, call, counterVars, devices,
                   metrics_placeholders, fallback_placeholders, first_full_publish,
                   last_notification, keepalive_count, keepalive_wake, logVars, loop_queue,
                   first_refresh_event, on_message, on_new_metric, waiter, now>>

\* WritableMetric.set, also reached through the value setter.
WritableMetric_set(key, value) ==
    /\ Len(conn.published) < MaxPublished
    /\ DictHas(all_metrics, key)
    /\ DictGet(all_metrics, key).cls = "WritableMetric"
    /\ \E self \in {DictGet(all_metrics, key)} :
        IF self.write_topic = None THEN
            /\ event' = Event("set", "AssertionError", Some(key), Some(value), "", <<>>)
            /\ UNCHANGED conn
        ELSE
            \E p \in {Hub_publish_message(
                        conn, Get(self.write_topic),
                        WritableMetric_wrap_payload(self.descriptor, Some(value)))} :
                /\ conn' = p.conn
                /\ event' = Event("set", IF p.raised # "" THEN p.raised ELSE "published",
                                  Some(key), Some(value), "", <<>>)
    /\ UNCHANGED <<keepalive_pc, keepalive_task>>
    /\ connFrame

(***************************************************************************)
(* _unwrappers.py: the value codec over JSON texts                         *)
(*                                                                         *)
(* A Python value is a record: its type t, for numbers its magnitude n in  *)
(* units of 1/3600 (so that seconds/3600 and seconds/60 are exact), and    *)
(* for strings and lists of names the pieces s between the bitmask         *)
(* separators.  A JSON text either does not parse, or is an object with or *)
(* without a "value" member, or is some other JSON value.                  *)
(***************************************************************************)
PyValue(t, n, s) == [t |-> t, n |-> n, s |-> s]
PyNone == PyValue("none", 0, <<>>)
PyInt(i) == PyValue("int", i * 3600, <<>>)
PyFloat(n) == PyValue("float", n, <<>>)
PyInf == PyValue("inf", 0, <<>>)
PyBool(b) == PyValue("bool", IF b THEN 3600 ELSE 0, <<>>)
PyStr(pieces) == PyValue("str", 0, pieces)
PyList == PyValue("list", 0, <<>>)
PyEnum(member) == PyValue("enum", 0, <<member>>)
PyEnumList(members) == PyValue("enum_list", 0, members)
PyStrList(strings) == PyValue("str_list", 0, strings)
PyDatetime(n) == PyValue("datetime", n, <<>>)

PyNumeric == {"int", "float", "bool"}

\* a == b in Python: 1 == 1.0 == True.
PyEq(a, b) == IF a.t \in PyNumeric /\ b.t \in PyNumeric THEN a.n = b.n ELSE a = b

BadText == [parses |-> FALSE, object |-> FALSE, has_value |-> FALSE, value |-> PyNone]
ObjectText(v) == [parses |-> TRUE, object |-> TRUE, has_value |-> TRUE, value |-> v]
EmptyObjectText == [parses |-> TRUE, object |-> TRUE, has_value |-> FALSE, value |-> PyNone]
ScalarText(v) == [parses |-> TRUE, object |-> FALSE, has_value |-> FALSE, value |-> v]

\* What an evaluation gives: a value, or the exception it raised.
Ok(v) == [raised |-> "", value |-> v]
Raise(exception) == [raised |-> exception, value |-> PyNone]

\* Sequencing: the rest of a block runs unless a step raised.
Then(r, Rest(_)) == IF r.raised # "" THEN r ELSE Rest(r.value)

\* except (json.JSONDecodeError, KeyError, ValueError, TypeError): return default
CaughtExceptions == {"JSONDecodeError", "KeyError", "ValueError", "TypeError"}
except(r, default) == IF r.raised \in CaughtExceptions THEN Ok(default) ELSE r

\* json.loads(json_str)
json_loads(json_str) == IF json_str.parses THEN Ok(json_str) ELSE Raise("JSONDecodeError")

\* json.dumps({"value": value})
json_dumps(value) == Ok(ObjectText(value))

\* data["value"]
getitem(data) ==
    IF ~data.object THEN Raise("TypeError")
    ELSE IF ~data.has_value THEN Raise("KeyError")
    ELSE Ok(data.value)

\* data.get(json_value)
dict_get(data) ==
    IF ~data.object THEN Raise("AttributeError")
    ELSE IF ~data.has_value THEN Ok(PyNone)
    ELSE Ok(data.value)

\* The strings that are decimal numbers, with their values.
DecimalStrings == (<<"7">> :> 7)

\* int(x)
py_int(x) ==
    IF x.t \in {"int", "bool"} THEN Ok(PyValue("int", x.n, <<>>))
    ELSE IF x.t = "float"
    THEN Ok(PyInt(IF x.n >= 0 THEN x.n \div 3600 ELSE -((-x.n) \div 3600)))
    ELSE IF x.t = "inf" THEN Raise("OverflowError")
    ELSE IF x.t = "str"
    THEN IF x.s \in DOMAIN DecimalStrings THEN Ok(PyInt(DecimalStrings[x.s]))
         ELSE Raise("ValueError")
    ELSE Raise("TypeError")

\* float(x)
py_float(x) ==
    IF x.t \in PyNumeric THEN Ok(PyFloat(x.n))
    ELSE IF x.t = "inf" THEN Ok(PyInf)
    ELSE IF x.t = "str"
    THEN IF x.s \in DOMAIN DecimalStrings THEN Ok(PyFloat(DecimalStrings[x.s] * 3600))
         ELSE Raise("ValueError")
    ELSE Raise("TypeError")

\* str(x): a string stays; any other value gives the text that names it.
py_str(x) == IF x.t = "str" THEN Ok(x) ELSE Ok(PyValue("str", x.n, <<x.t>> \o x.s))

\* bool(x)
py_bool(x) ==
    Ok(PyBool(IF x.t \in PyNumeric THEN x.n # 0
              ELSE IF x.t = "str" THEN x.s # <<"">>
              ELSE x.t # "none"))

\* round(value, precision) for precision 0, 1 or 2: to the nearest multiple
\* of 10^-precision, a tie going to the even multiple.
py_round(x, precision) ==
    IF precision = None \/ x.t = "inf" THEN x
    ELSE LET unit == IF Get(precision) = 0 THEN 3600 ELSE IF Get(precision) = 1 THEN 360 ELSE 36
             q == x.n \div unit
             r == x.n % unit
         IN  PyFloat(unit * (IF 2 * r < unit THEN q
                             ELSE IF 2 * r > unit THEN q + 1
                             ELSE IF q % 2 = 0 THEN q ELSE q + 1))

\* datetime.fromtimestamp(value)
datetime_fromtimestamp(x) ==
    IF x.t \in PyNumeric THEN Ok(PyDatetime(x.n))
    ELSE IF x.t = "inf" THEN Raise("OverflowError")
    ELSE Raise("TypeError")

\* datetime.timestamp(value)
datetime_timestamp(x) == PyFloat(x.n)

\* Two VictronEnum classes, members as <<name, code, string>>; of
\* SolarChargerDeviceOffReason the members with the codes 0, 1, 2 and 4
\* (the payloads examined set these bits and 0x1000, which no member has).
GenericOnOff == << <<"Off", 0, "Off">>, <<"On", 1, "On">> >>

SolarChargerDeviceOffReason ==
    << <<"NONE", 0, "-">>, <<"NoInputPower", 1, "No/Low input power">>,
       <<"SwitchedOffPowerSwitch", 2, "Switched off (power switch)">>,
       <<"SwitchedOffDeviceModeRegister", 4, "Switched off (device mode register)">> >>

\* VictronEnum.from_code: lookup.get(value), the member or None.
from_code(enum, x) ==
    IF x.t \in {"list", "enum_list", "str_list"} THEN Raise("TypeError")
    ELSE LET hits == SelectSeq(enum, LAMBDA m : x.t \in PyNumeric /\ x.n = m[2] * 3600)
         IN  Ok(IF hits = <<>> THEN PyNone ELSE PyEnum(hits[1][1]))

\* VictronEnum.from_string
from_string(enum, string) ==
    LET hits == SelectSeq(enum, LAMBDA m : m[3] = string)
    IN  IF hits = <<>> THEN Raise("ValueError") ELSE Ok(PyEnum(hits[1][1]))

\* member.code and member.string of the member called name.
member_code(enum, name) == (SelectSeq(enum, LAMBDA m : m[1] = name))[1][2]
member_string(enum, name) == (SelectSeq(enum, LAMBDA m : m[1] = name))[1][3]

\* The "value is None" test of every decoder.
is_none(v) == v.t = "none"

unwrap_bool_json(json_str) ==
    except(Then(json_loads(json_str), LAMBDA data :
           Then(getitem(data), LAMBDA value :
           IF is_none(value) THEN Ok(PyNone) ELSE py_bool(value))), PyNone)

unwrap_int(json_str) ==
    except(Then(json_loads(json_str), LAMBDA data :
           Then(getitem(data), LAMBDA value :
           IF is_none(value) THEN Ok(PyNone) ELSE py_int(value))), PyNone)

unwrap_int_default_0(json_str) ==
    except(Then(json_loads(json_str), LAMBDA data :
           Then(getitem(data), LAMBDA value :
           IF is_none(value) THEN Ok(PyInt(0)) ELSE py_int(value))), PyInt(0))

unwrap_int_seconds_to_hours(json_str, precision) ==
    Then(unwrap_int(json_str), LAMBDA seconds :
    IF is_none(seconds) THEN Ok(PyNone)
    ELSE Ok(py_round(PyFloat(seconds.n \div 3600), precision)))

unwrap_int_seconds_to_minutes(json_str, precision) ==
    Then(unwrap_int(json_str), LAMBDA seconds :
    IF is_none(seconds) THEN Ok(PyNone)
    ELSE Ok(py_round(PyFloat(seconds.n \div 60), precision)))

\* unwrap_float, json_value left at "value"
unwrap_float_json(json_str, precision) ==
    except(Then(json_loads(json_str), LAMBDA data :
           Then(dict_get(data), LAMBDA found :
           IF is_none(found) THEN Ok(PyNone)
           ELSE Then(py_float(found), LAMBDA value : Ok(py_round(value, precision))))), PyNone)

unwrap_string(json_str) ==
    except(Then(json_loads(json_str), LAMBDA data :
           Then(getitem(data), LAMBDA value :
           IF is_none(value) THEN Ok(PyNone) ELSE py_str(value))), PyNone)

\* Only json.loads is inside the try block.
unwrap_enum(json_str, enum) ==
    IF json_loads(json_str).raised # "" THEN except(json_loads(json_str), PyNone)
    ELSE Then(getitem(json_loads(json_str).value), LAMBDA val :
         IF is_none(val) THEN Ok(PyNone) ELSE from_code(enum, val))

\* The powers of two set in a positive int, lowest first.
BitPowers == <<1, 2, 4, 8, 16, 32, 64, 128, 256, 512, 1024, 2048, 4096>>
set_bits(val) == SelectSeq(BitPowers, LAMBDA b : (val \div b) % 2 = 1)

\* str.join(BITMASK_SEPARATOR, strings)
str_join(strings) == PyStr(IF strings = <<>> THEN <<"">> ELSE strings)

\* Only json.loads is inside the try block.
unwrap_bitmask(json_str, enum) ==
    IF json_loads(json_str).raised # "" THEN except(json_loads(json_str), PyNone)
    ELSE Then(getitem(json_loads(json_str).value), LAMBDA val :
         IF is_none(val) THEN Ok(PyNone)
         ELSE Then(py_int(val), LAMBDA as_int :
              IF as_int.n > 0 /\ val.t \notin {"int", "bool"} THEN Raise("TypeError")
              ELSE LET vals == IF as_int.n > 0 THEN set_bits(as_int.n \div 3600) ELSE <<0>>
                       enums == [i \in 1..Len(vals) |-> from_code(enum, PyInt(vals[i])).value]
                       found == SelectSeq(enums, LAMBDA e : ~is_none(e))
                   IN  Ok(str_join([i \in 1..Len(found) |->
                                       member_string(enum, found[i].s[1])]))))

unwrap_epoch(json_str) ==
    except(Then(json_loads(json_str), LAMBDA data :
           Then(getitem(data), LAMBDA value :
           IF is_none(value) THEN Ok(PyNone) ELSE datetime_fromtimestamp(value))), PyNone)

isinstance(x, type) == x.t = type

wrap_enum(enum_val, enum_expected) ==
    IF isinstance(enum_val, "enum")
    THEN json_dumps(PyInt(member_code(enum_expected, enum_val.s[1])))
    ELSE IF isinstance(enum_val, "str")
    THEN Then(from_string(enum_expected, enum_val.s[1]), LAMBDA member :
              json_dumps(PyInt(member_code(enum_expected, member.s[1]))))
    ELSE Raise("TypeError")

\* The loop "for v in bitmask_val" of wrap_bitmask, from the i-th item on.
RECURSIVE wrap_bitmask_sum(_, _, _, _)
wrap_bitmask_sum(items, of_enums, enum_expected, i) ==
    IF i > Len(items) THEN Ok(PyInt(0))
    ELSE Then(IF of_enums THEN Ok(PyEnum(items[i])) ELSE from_string(enum_expected, items[i]),
              LAMBDA member :
              Then(wrap_bitmask_sum(items, of_enums, enum_expected, i + 1), LAMBDA rest :
                   Ok(PyValue("int", member_code(enum_expected, member.s[1]) * 3600 + rest.n,
                              <<>>))))

wrap_bitmask(bitmask_val, enum_expected) ==
    IF bitmask_val.t \in {"enum", "enum_list", "str", "str_list"}
    THEN Then(wrap_bitmask_sum(bitmask_val.s, bitmask_val.t \in {"enum", "enum_list"},
                               enum_expected, 1),
              LAMBDA val : json_dumps(val))
    ELSE Raise("TypeError")

wrap_int(value) == json_dumps(value)

wrap_int_hours_to_seconds(value) ==
    json_dumps(IF is_none(value) THEN PyNone ELSE PyValue(value.t, value.n * 3600, <<>>))

wrap_int_minutes_to_seconds(value) ==
    json_dumps(IF is_none(value) THEN PyNone ELSE PyValue(value.t, value.n * 60, <<>>))

wrap_int_default_0(value) == json_dumps(IF is_none(value) THEN PyInt(0) ELSE value)

wrap_float(value) == json_dumps(value)

wrap_string(value) == json_dumps(value)

wrap_epoch(value) ==
    IF is_none(value) THEN json_dumps(PyNone) ELSE json_dumps(datetime_timestamp(value))

\* ValueType members present in both VALUE_TYPE_UNWRAPPER and
\* VALUE_TYPE_WRAPPER.
WrappedValueTypes ==
    {"int", "int_default_0", "float", "str", "enum", "bitmask", "epoch",
     "int_seconds_to_hours", "int_seconds_to_minutes"}

\* VALUE_TYPE_UNWRAPPER[value_type], called as Device._unwrap_payload calls it;
\* "bool" stands for unwrap_bool, which the map does not hold.
VALUE_TYPE_UNWRAPPER(value_type, json_str, precision, enum) ==
    IF value_type = "int" THEN unwrap_int(json_str)
    ELSE IF value_type = "int_default_0" THEN unwrap_int_default_0(json_str)
    ELSE IF value_type = "float" THEN unwrap_float_json(json_str, precision)
    ELSE IF value_type = "str" THEN unwrap_string(json_str)
    ELSE IF value_type = "enum" THEN unwrap_enum(json_str, enum)
    ELSE IF value_type = "bitmask" THEN unwrap_bitmask(json_str, enum)
    ELSE IF value_type = "epoch" THEN unwrap_epoch(json_str)
    ELSE IF value_type = "int_seconds_to_hours" THEN unwrap_int_seconds_to_hours(json_str, precision)
    ELSE IF value_type = "int_seconds_to_minutes"
    THEN unwrap_int_seconds_to_minutes(json_str, precision)
    ELSE unwrap_bool_json(json_str)

\* VALUE_TYPE_WRAPPER[value_type], called as WritableMetric._wrap_payload calls it.
VALUE_TYPE_WRAPPER(value_type, value, enum) ==
    IF value_type = "int" THEN wrap_int(value)
    ELSE IF value_type = "int_default_0" THEN wrap_int_default_0(value)
    ELSE IF value_type = "float" THEN wrap_float(value)
    ELSE IF value_type = "str" THEN wrap_string(value)
    ELSE IF value_type = "enum" THEN wrap_enum(value, enum)
    ELSE IF value_type = "bitmask" THEN wrap_bitmask(value, enum)
    ELSE IF value_type = "epoch" THEN wrap_epoch(value)
    ELSE IF value_type = "int_seconds_to_hours" THEN wrap_int_hours_to_seconds(value)
    ELSE wrap_int_minutes_to_seconds(value)

(***************************************************************************)
(* hub.py: Hub.__init__, instance counter and client id                    *)
(***************************************************************************)
\* The global running_client_id and, per constructor call, its position, the
\* instance id it took and the counter value it loaded for the increment.
Process(counter, pc) ==
    [running_client_id |-> counter,
     init |-> [h \in 1..2 |-> [pc |-> pc, instance_id |-> 0, loaded |-> 0]]]

createFrame ==
    UNCHANGED <<update_frequency_seconds, conn, operation_mode, expanded_topics, keepalive_task, call,
                counterVars,
                engineVars,
                taskVars, logVars, loop_queue, first_refresh_event, on_message,
                on_new_metric, waiter, now>>

\* self._instance_id = running_client_id
HubInitInstanceId(h) ==
    /\ process.init[h].pc = "start"
    /\ process' = [process EXCEPT !.init[h].instance_id = process.running_client_id,
                                  !.init[h].pc = "instance_id"]
    /\ event' = Event("init", "instance_id", None, None, "", <<>>)
    /\ UNCHANGED <<client_id, other_client_id>>
    /\ createFrame

\* running_client_id += 1: the global is loaded ...
HubInitLoadCounter(h) ==
    /\ process.init[h].pc = "instance_id"
    /\ process' = [process EXCEPT !.init[h].loaded = process.running_client_id,
                                  !.init[h].pc = "loaded"]
    /\ event' = Event("init", "loaded", None, None, "", <<>>)
    /\ UNCHANGED <<client_id, other_client_id>>
    /\ createFrame

\* ... and the sum is stored.
HubInitStoreCounter(h) ==
    /\ process.init[h].pc = "loaded"
    /\ process' = [process EXCEPT !.running_client_id = process.init[h].loaded + 1,
                                  !.init[h].pc = "stored"]
    /\ event' = Event("init", "stored", None, None, "", <<>>)
    /\ UNCHANGED <<client_id, other_client_id>>
    /\ createFrame

\* self._client_id = f"victron_mqtt-{random_string}-{self._instance_id}"
HubInitClientId(h, random_string) ==
    /\ process.init[h].pc = "stored"
    /\ process' = [process EXCEPT !.init[h].pc = "done"]
    /\ client_id' = IF h = 1
                    THEN MakeClientId(random_string, process.init[h].instance_id)
                    ELSE client_id
    /\ other_client_id' = IF h = 2
                          THEN MakeClientId(random_string, process.init[h].instance_id)
                          ELSE other_client_id
    /\ event' = Event("init", "client_id", None, None, "", <<>>)
    /\ createFrame

(***************************************************************************)
(* hub.py: starting, stopping and ending the keepalive task                *)
(***************************************************************************)
taskFrame ==
    UNCHANGED <<client_id, other_client_id, update_frequency_seconds, conn, operation_mode, expanded_topics,
                process, call, counterVars, engineVars, taskVars, logVars, loop_queue,
                first_refresh_event, on_message, on_new_metric, waiter, now>>

\* Hub._start_keep_alive_loop
StartKeepAliveLoop ==
    /\ Len(keepalive_task.tasks) < MaxTasks
    /\ keepalive_task' = Hub_start_keep_alive_loop(keepalive_task)
    /\ event' = Event("start_keep_alive_loop", "", None, None, "", <<>>)
    /\ taskFrame

\* Hub._stop_keepalive_loop
StopKeepaliveLoop ==
    /\ keepalive_task' = Hub_stop_keepalive_loop(keepalive_task)
    /\ event' = Event("stop_keepalive_loop", "", None, None, "", <<>>)
    /\ taskFrame

\* Hub.disconnect on a Hub whose client is gone: the task is stopped and the
\* call returns at "No client to disconnect".
DisconnectNoClient ==
    /\ ~conn.client
    /\ keepalive_task' = Hub_stop_keepalive_loop(keepalive_task)
    /\ event' = Event("disconnect", "no_client", None, None, "", <<>>)
    /\ taskFrame

\* _keepalive_loop receives the CancelledError at its await and raises it
\* again.
TaskCancelled(t) ==
    /\ t \in DOMAIN keepalive_task.tasks
    /\ keepalive_task.tasks[t] = "cancelling"
    /\ keepalive_task' = [keepalive_task EXCEPT !.tasks[t] = "cancelled"]
    /\ event' = Event("keepalive_loop", "cancelled", None, None, "", <<>>)
    /\ taskFrame

\* _keepalive_loop ends on its own: it handles Exception only, any other
\* BaseException leaves the coroutine.
TaskFinished(t) ==
    /\ t \in DOMAIN keepalive_task.tasks
    /\ keepalive_task.tasks[t] = "running"
    /\ keepalive_task' = [keepalive_task EXCEPT !.tasks[t] = "finished"]
    /\ event' = Event("keepalive_loop", "finished", None, None, "", <<>>)
    /\ taskFrame

(***************************************************************************)
(* hub.py: Hub.expand_topic_list applied to a list of descriptors          *)
(***************************************************************************)
callFrame ==
    UNCHANGED <<client_id, other_client_id, update_frequency_seconds, conn, operation_mode, expanded_topics,
                process, keepalive_task, counterVars, engineVars, taskVars, logVars,
                loop_queue, first_refresh_event, on_message, on_new_metric, waiter, now>>

\* "N/{installation_id}/switch/{device_id}/SwitchableOutput/output_{<name>(<a>-<b>)}/State",
\* the start index written with or without a leading zero, optionally
\* followed by a second range placeholder.
RangeTopic(name, padded, start, end, second) ==
    <<"N", "{installation_id}", "switch", "{device_id}", "SwitchableOutput", "output_",
      "{", name, "(">>
    \o (IF padded THEN <<"0">> ELSE <<>>) \o Digits(start) \o <<"-">> \o Digits(end)
    \o <<")", "}">>
    \o (IF second THEN <<"{", "slot", "(", "5", "-", "6", ")", "}">> ELSE <<>>)
    \o <<"State">>

DescSwitchState(name, padded, start, end, second) ==
    TopicDescriptor(RangeTopic(name, padded, start, end, second), "switch",
                    <<"switch_{output}_state">>, "int", None, <<>>)

\* Hub.expand_topic_list(topic_list)
ExpandTopicList ==
    /\ call.fn = "expand_topic_list"
    /\ call.result = None
    /\ call' = [call EXCEPT !.result = Some(expand_topic_list(call.args.topic_list))]
    /\ event' = Event("expand_topic_list", "", None, None, "", <<>>)
    /\ callFrame

(***************************************************************************)
(* _unwrappers.py: a decoder applied to a payload, an encoder applied to a *)
(* value and its decoder applied to what the encoder wrote                 *)
(***************************************************************************)
\* VALUE_TYPE_UNWRAPPER[value_type](payload, ...)
Unwrap ==
    /\ call.fn = "unwrap"
    /\ call.result = None
    /\ call' = [call EXCEPT !.result =
                   Some(VALUE_TYPE_UNWRAPPER(call.args.value_type, call.args.json_str,
                                             call.args.precision, call.args.enum))]
    /\ event' = Event("unwrap", "", None, None, "", <<>>)
    /\ callFrame

\* VALUE_TYPE_WRAPPER[value_type](value, ...)
Wrap ==
    /\ call.fn = "wrap"
    /\ call.result = None
    /\ call' = [call EXCEPT !.result =
                   Some([encoded |-> VALUE_TYPE_WRAPPER(call.args.value_type, call.args.value,
                                                        call.args.enum),
                         decoded |-> None])]
    /\ event' = Event("wrap", "", None, None, "", <<>>)
    /\ callFrame

\* VALUE_TYPE_UNWRAPPER[value_type] applied to the text the encoder returned.
UnwrapWrapped ==
    /\ call.fn = "wrap"
    /\ call.result # None
    /\ Get(call.result).decoded = None
    /\ Get(call.result).encoded.raised = ""
    /\ call' = [call EXCEPT !.result =
                   Some([Get(call.result) EXCEPT !.decoded =
                            Some(VALUE_TYPE_UNWRAPPER(call.args.value_type,
                                                      Get(call.result).encoded.value,
                                                      call.args.precision, call.args.enum))])]
    /\ event' = Event("unwrap", "wrapped", None, None, "", <<>>)
    /\ callFrame

(***************************************************************************)
(* Specifications                                                          *)
(***************************************************************************)
\* The state when Hub.connect() has returned.
InitHubCall(own_id, other_id, frequency, mode, examined) ==
    /\ operation_mode = mode
    /\ expanded_topics = expanded_by_mode[mode]
    /\ process = Process(CreatedBefore, "done")
    /\ keepalive_task = Hub_start_keep_alive_loop(KeepaliveTask)
    /\ call = examined
    /\ client_id = own_id
    /\ other_client_id = other_id
    /\ update_frequency_seconds = frequency
    /\ conn = ConnectedHub
    /\ keepalive_counter = 0
    /\ other_keepalive_counter = 0
    /\ devices = <<>>
    /\ metrics_placeholders = <<>>
    /\ fallback_placeholders = <<>>
    /\ all_metrics = <<>>
    /\ on_new_metric = FALSE
    /\ first_refresh_event = FALSE
    /\ first_full_publish = TRUE
    /\ on_message = "normal"
    /\ loop_queue = <<>>
    /\ waiter = "idle"
    /\ now = StartTime
    /\ keepalive_pc = "start"
    /\ keepalive_count = 0
    /\ keepalive_wake = 0
    /\ event = Event("connect", "", None, None, "", <<>>)
    /\ new_metric_log = [k \in {} |-> 0]
    /\ first_refresh_setter = None
    /\ last_notification = <<>>

InitHubMode(own_id, other_id, frequency, mode) ==
    InitHubCall(own_id, other_id, frequency, mode, NoCall)

InitHub(own_id, other_id, frequency) == InitHubMode(own_id, other_id, frequency, "full")

\* Spec: the resolution engine of one hub.
EngineMessages ==
    {<<TopicPower, ValuePayload(120)>>, <<TopicPower, NullPayload>>,
     <<TopicPowerOther, NullPayload>>,
     <<TopicLimit, ValuePayload(16)>>, <<TopicLimit, MalformedPayload>>,
     <<TopicFlag, ValuePayload(0)>>, <<TopicFlag, ValuePayload(1)>>,
     <<TopicFlag, NullPayload>>, <<TopicUnknown, ValuePayload(1)>>,
     <<TopicShort, ValuePayload(1)>>}

Init == InitHub(MakeClientId("ra", 0), MakeClientId("rb", 1), None)

Message == \E m \in EngineMessages : OnMessage(m[1], m[2], "")

Next ==
    \/ Message
    \/ CompletedOwnEcho
    \/ KeepaliveStart
    \/ LoopRun

Spec == Init /\ [][Next]_vars

\* SpecNotify: the application registers (or removes) its new-metric callback
\* at any time while metrics are discovered and retained values republished.
NotifyMessages ==
    {<<TopicPower, ValuePayload(120)>>, <<TopicLimit, ValuePayload(16)>>}

MessageNotify == \E m \in NotifyMessages : OnMessage(m[1], m[2], "")

NextNotify ==
    \/ MessageNotify
    \/ CompletedOwnEcho
    \/ KeepaliveStart
    \/ SetOnNewMetric
    \/ LoopRun

SpecNotify == Init /\ [][NextNotify]_vars

\* SpecHubs: two hubs on one broker; each sees the completions caused by both.
\* The hubs' client ids differ in the random part or in the instance id.
InitHubs ==
    \E random_string \in RandomStrings, instance_id \in OtherInstanceIds :
        /\ MakeClientId(random_string, instance_id) # MakeClientId("ra", OwnInstanceId)
        /\ InitHub(MakeClientId("ra", OwnInstanceId),
                   MakeClientId(random_string, instance_id), None)

MessageHubs == OnMessage(TopicPower, ValuePayload(120), "")

NextHubs ==
    \/ MessageHubs
    \/ CompletedNoEcho
    \/ CompletedOwnEcho
    \/ CompletedOtherEcho
    \/ KeepaliveStart
    \/ OtherHubKeepalive
    \/ LoopRun
    \/ WaitForFirstRefresh
    \/ WaiterResume
    \/ CreateFullRawSnapshot

SpecHubs == InitHubs /\ [][NextHubs]_vars

\* SpecClock: one hub with each kind of update frequency, its clock and the
\* application's update callbacks.
ClockFrequencies == {None, Some(0), Some(UpdateFrequency)}

ClockMessages ==
    {<<TopicPower, ValuePayload(240)>>, <<TopicPower, ValuePayload(-100)>>}

InitClock ==
    \E frequency \in ClockFrequencies :
        InitHub(MakeClientId("ra", 0), MakeClientId("rb", 1), frequency)

MessageClock == \E m \in ClockMessages : OnMessage(m[1], m[2], "")

\* The event loop is prompt: the callbacks handed to it run before the next
\* message, clock tick or task step.  (Callbacks only touch the application's
\* side, so they commute with the steps of the engine.)
LoopIdle(A) == loop_queue = <<>> /\ A

NextClock ==
    \/ LoopIdle(MessageClock)
    \/ LoopIdle(CompletedOwnEcho)
    \/ LoopIdle(KeepaliveStart)
    \/ LoopIdle(SetOnUpdateAny)
    \/ LoopIdle(TickSecond)
    \/ LoopRun

SpecClock == InitClock /\ [][NextClock]_vars

\* SpecSilence: SpecClock over several periods of the keepalive task, whose
\* every second wake-up runs the silence pass over the metrics.
SilenceFrequencies == {None, Some(0), Some(UpdateFrequency)}

InitSilence ==
    \E frequency \in SilenceFrequencies :
        InitHub(MakeClientId("ra", 0), MakeClientId("rb", 1), frequency)

MessageSilence == OnMessage(TopicPower, ValuePayload(240), "")

NextSilence ==
    \/ LoopIdle(MessageSilence)
    \/ LoopIdle(CompletedOwnEcho)
    \/ LoopIdle(KeepaliveStart)
    \/ LoopIdle(KeepaliveWake)
    \/ LoopIdle(SetOnUpdateAny)
    \/ LoopIdle(TickSecond)
    \/ LoopIdle(TickSleep)
    \/ LoopRun

SpecSilence == InitSilence /\ [][NextSilence]_vars

\* SpecSilenceFair: the keepalive task is an asyncio task on a running loop.
\* Its sleep ends at most MaxTick after the wake-up time, the clock reaches
\* that time, the task is resumed, and the loop runs every callback handed
\* to it.
TimerPrompt ==
    (keepalive_pc = "sleep" /\ now' # now) => now' <= keepalive_wake + MaxTick

NextSilenceFair == NextSilence /\ TimerPrompt

SpecSilenceFair ==
    /\ InitSilence
    /\ [][NextSilenceFair]_vars
    /\ SF_vars(LoopIdle(TickSleep) /\ TimerPrompt)
    /\ SF_vars(LoopIdle(KeepaliveWake))
    /\ WF_vars(LoopRun)

\* The earliest time of the next silence pass while the task sleeps.
EarliestPass ==
    IF keepalive_count % 2 = 1 THEN keepalive_wake
    ELSE keepalive_wake + KEEPALIVE_SLEEP

\* SpecCallbacks: a hub without update frequency whose application registers
\* both kinds of callback while readings arrive.
NextCallbacks ==
    \/ LoopIdle(MessageClock)
    \/ LoopIdle(CompletedOwnEcho)
    \/ LoopIdle(KeepaliveStart)
    \/ LoopIdle(SetOnNewMetric)
    \/ LoopIdle(SetOnUpdateAny)
    \/ LoopRun

SpecCallbacks == Init /\ [][NextCallbacks]_vars

\* SpecErrors: readings mixed with messages the hub cannot use: a topic too
\* short to parse, a settings topic without its device type, a topic no
\* descriptor matches, null and malformed payloads.
NextErrors ==
    \/ \E m \in {<<TopicPower, ValuePayload(120)>>, <<TopicPower, ValuePayload(240)>>,
                  <<TopicPower, NullPayload>>, <<TopicLimit, ValuePayload(16)>>,
                  <<TopicLimit, MalformedPayload>>, <<TopicFlag, NullPayload>>,
                  <<TopicUnknown, ValuePayload(1)>>, <<TopicShort, ValuePayload(1)>>,
                  <<TopicSettingsShort, ValuePayload(1)>>} :
          LoopIdle(OnMessage(m[1], m[2], ""))
    \/ LoopIdle(CompletedOwnEcho)
    \/ LoopIdle(CompletedMalformed)
    \/ LoopIdle(KeepaliveStart)
    \/ LoopIdle(SetOnUpdate(KeyPower))
    \/ LoopRun

SpecErrors == Init /\ [][NextErrors]_vars

\* SpecFlush: a hub with a positive update frequency, two alternating
\* readings and the keepalive task with its silence pass.
InitFlush == InitHub(MakeClientId("ra", 0), MakeClientId("rb", 1), Some(UpdateFrequency))

NextFlush ==
    \/ LoopIdle(MessageClock) /\ TimerPrompt
    \/ LoopIdle(CompletedOwnEcho) /\ TimerPrompt
    \/ LoopIdle(KeepaliveStart) /\ TimerPrompt
    \/ LoopIdle(KeepaliveWake) /\ TimerPrompt
    \/ LoopIdle(SetOnUpdate(KeyPower)) /\ TimerPrompt
    \/ LoopIdle(TickSecond) /\ TimerPrompt
    \/ LoopIdle(TickSleep) /\ TimerPrompt
    \/ LoopRun

SpecFlush == InitFlush /\ [][NextFlush]_vars

\* SpecConnect: a constructed Hub whose connect() is called, with the
\* client's network thread connecting, failing and reconnecting, and a
\* caller of wait_for_first_refresh once connect() has returned.
ConstructorInstallationIds == {None, Some("123")}

InitConnect ==
    \E id \in ConstructorInstallationIds :
        /\ client_id = MakeClientId("ra", 0)
        /\ other_client_id = MakeClientId("rb", 1)
        /\ update_frequency_seconds = None
        /\ operation_mode = "full"
        /\ expanded_topics = expanded_by_mode["full"]
        /\ process = Process(CreatedBefore, "done")
        /\ keepalive_task = KeepaliveTask
        /\ call = NoCall
        /\ conn = HubConnection(id)
        /\ keepalive_counter = 0
        /\ other_keepalive_counter = 0
        /\ devices = <<>>
        /\ metrics_placeholders = <<>>
        /\ fallback_placeholders = <<>>
        /\ all_metrics = <<>>
        /\ on_new_metric = FALSE
        /\ first_refresh_event = FALSE
        /\ first_full_publish = TRUE
        /\ on_message = "normal"
        /\ loop_queue = <<>>
        /\ waiter = "idle"
        /\ now = StartTime
        /\ keepalive_pc = "none"
        /\ keepalive_count = 0
        /\ keepalive_wake = 0
        /\ event = Event("init", "", None, None, "", <<>>)
        /\ new_metric_log = [k \in {} |-> 0]
        /\ first_refresh_setter = None
        /\ last_notification = <<>>

\* Messages reach the Hub only over a live connection that has subscribed.
Subscribed(topic) == conn.client /\ conn.is_connected /\ topic \in conn.broker_subscriptions

NextConnect ==
    \/ Connect
    \/ OnConnect(0)
    \/ OnConnect(5)
    \/ OnConnectFail
    \/ ConnectionLost
    \/ ConnectLoopRun
    \/ WaitForConnectTimeout
    \/ ConnectResume
    \/ InstallationIdMessage(TopicSerial)
    \/ InstallationIdMessage(TopicShort)
    \/ ReadInstallationIdTimeout
    \/ ConnectFinish
    \/ Disconnect
    \/ (conn.result = "completed" /\ WaitForFirstRefresh)
    \/ WaiterResume
    \/ WaitForFirstRefreshTimeout
    \/ (Subscribed(TopicCompleted) /\ LoopIdle(CompletedNoEcho))
    \/ LoopRun

SpecConnect == InitConnect /\ [][NextConnect]_vars

\* The event loop keeps running: a wait_for() either sees its event or its
\* timeout, and the coroutine goes on.
SpecConnectFair ==
    /\ SpecConnect
    /\ WF_vars(WaitForConnectTimeout \/ ConnectResume)
    /\ WF_vars(ReadInstallationIdTimeout \/ ConnectFinish)
    /\ WF_vars(WaitForFirstRefreshTimeout \/ WaiterResume)

\* SpecPublish: a connected Hub whose application publishes to service topics
\* and writes to the writable metrics the engine has committed.
PublishShortIds ==
    {<<"generator_service_counter_reset">>, <<"system_dc_battery_power">>, <<"NO TOPIC">>}
PublishDeviceIds == {"170", "0"}
PublishValues == {None, Some(1)}
SetValues == {42}

PublishMessages ==
    {<<TopicLimit, ValuePayload(16)>>, <<TopicLimit, ValuePayload(42)>>,
     <<TopicFlag, ValuePayload(0)>>}

NextPublish ==
    \/ \E m \in PublishMessages : LoopIdle(OnMessage(m[1], m[2], ""))
    \/ LoopIdle(KeepaliveStart)
    \/ LoopIdle(CompletedOwnEcho)
    \/ \E short_id \in PublishShortIds, device_id \in PublishDeviceIds, value \in PublishValues :
           Publish(short_id, device_id, value)
    \/ \E value \in SetValues : WritableMetric_set(KeyLimit, value)
    \/ Disconnect
    \/ LoopRun

SpecPublish == Init /\ [][NextPublish]_vars

\* SpecReadOnly: the engine of a Hub constructed with OperationMode.READ_ONLY.
InitReadOnly == InitHubMode(MakeClientId("ra", 0), MakeClientId("rb", 1), None, "read_only")

ReadOnlyMessages ==
    {<<TopicLimit, ValuePayload(16)>>, <<TopicFlag, ValuePayload(0)>>,
     <<TopicFlag, ValuePayload(1)>>, <<TopicPower, ValuePayload(120)>>}

NextReadOnly ==
    \/ \E m \in ReadOnlyMessages : OnMessage(m[1], m[2], "")
    \/ KeepaliveStart
    \/ CompletedOwnEcho
    \/ LoopRun

SpecReadOnly == InitReadOnly /\ [][NextReadOnly]_vars

\* SpecCreate: two Hub() calls in one process, on threads that may interleave.
StartCounters == {0, 9}

InitCreate ==
    \E counter \in StartCounters :
        /\ operation_mode = "full"
        /\ expanded_topics = expanded_by_mode["full"]
        /\ process = Process(counter, "start")
        /\ keepalive_task = KeepaliveTask
        /\ call = NoCall
        /\ client_id = <<>>
        /\ other_client_id = <<>>
        /\ update_frequency_seconds = None
        /\ conn = HubConnection(None)
        /\ keepalive_counter = 0
        /\ other_keepalive_counter = 0
        /\ devices = <<>>
        /\ metrics_placeholders = <<>>
        /\ fallback_placeholders = <<>>
        /\ all_metrics = <<>>
        /\ on_new_metric = FALSE
        /\ first_refresh_event = FALSE
        /\ first_full_publish = TRUE
        /\ on_message = "normal"
        /\ loop_queue = <<>>
        /\ waiter = "idle"
        /\ now = StartTime
        /\ keepalive_pc = "none"
        /\ keepalive_count = 0
        /\ keepalive_wake = 0
        /\ event = Event("import", "", None, None, "", <<>>)
        /\ new_metric_log = [k \in {} |-> 0]
        /\ first_refresh_setter = None
        /\ last_notification = <<>>

NextCreate ==
    \E h \in 1..2 :
        \/ HubInitInstanceId(h)
        \/ HubInitLoadCounter(h)
        \/ HubInitStoreCounter(h)
        \/ \E random_string \in RandomStrings : HubInitClientId(h, random_string)

SpecCreate == InitCreate /\ [][NextCreate]_vars

\* SpecTask: the keepalive task handle of a Hub that is new or connected,
\* under any order of start, stop, disconnect and the task's own end.
InitTask == InitConnect \/ Init

NextTask ==
    \/ StartKeepAliveLoop
    \/ StopKeepaliveLoop
    \/ Disconnect
    \/ DisconnectNoClient
    \/ \E t \in 1..MaxTasks : TaskCancelled(t) \/ TaskFinished(t)

SpecTask == InitTask /\ [][NextTask]_vars

\* SpecExpand: Hub.expand_topic_list on a list with one range descriptor,
\* alone or after a descriptor without a range.
RangeNames == {"output", "relay"}

InitExpand ==
    \E name \in RangeNames, padded \in BOOLEAN, second \in BOOLEAN, alone \in BOOLEAN,
       start \in 0..MaxRangeStart :
        \E end \in start..MaxRangeEnd :
            InitHubCall(MakeClientId("ra", 0), MakeClientId("rb", 1), None, "full",
                      [fn |-> "expand_topic_list",
                       args |-> [name |-> name, start |-> start, end |-> end, padded |-> padded,
                                 topic_list |->
                                     (IF alone THEN <<>> ELSE <<DescBatteryPower>>)
                                     \o <<DescSwitchState(name, padded, start, end, second)>>],
                       result |-> None])

NextExpand == ExpandTopicList

SpecExpand == InitExpand /\ [][NextExpand]_vars

\* SpecCodec: each decoder on each kind of payload, and each encoder on
\* representative values of its type followed by the decoder.
DecodedValueTypes == WrappedValueTypes \cup {"bool"}

Precisions == {None, Some(2)}

enum_of(value_type) ==
    IF value_type = "bitmask" THEN SolarChargerDeviceOffReason ELSE GenericOnOff

\* 'bad json', '[1]', '5', 'null', '{}', '{"value": null}' and objects whose
\* value is a string, a list, Infinity or a number.
DecodeTexts ==
    {BadText, ScalarText(PyList), ScalarText(PyInt(5)), ScalarText(PyNone), EmptyObjectText,
     ObjectText(PyNone), ObjectText(PyStr(<<"abc">>)), ObjectText(PyStr(<<"7">>)),
     ObjectText(PyList), ObjectText(PyInf), ObjectText(PyBool(TRUE)),
     ObjectText(PyInt(0)), ObjectText(PyInt(1)), ObjectText(PyInt(3)), ObjectText(PyInt(-5)),
     ObjectText(PyInt(4096)), ObjectText(PyInt(5400)), ObjectText(PyFloat(4428))}

\* What the decoder of a type gives for '{"value": null}'.
NullSentinel(value_type) == IF value_type = "int_default_0" THEN PyInt(0) ELSE PyNone

\* Values of the form the decoder of the type returns: zero, a negative
\* value where the type has one, another value, and the null sentinel.
RoundTripValues(value_type) ==
    {NullSentinel(value_type)} \cup
    (IF value_type \in {"int", "int_default_0"} THEN {PyInt(0), PyInt(-5), PyInt(7)}
     ELSE IF value_type = "float" THEN {PyFloat(0), PyFloat(-5400), PyFloat(4428)}
     ELSE IF value_type = "str" THEN {PyStr(<<"">>), PyStr(<<"abc">>)}
     ELSE IF value_type = "enum" THEN {PyEnum("Off"), PyEnum("On")}
     ELSE IF value_type = "bitmask"
     THEN {PyStr(<<"-">>), PyStr(<<"No/Low input power">>),
           PyStr(<<"No/Low input power", "Switched off (power switch)">>)}
     ELSE IF value_type = "epoch" THEN {PyDatetime(0), PyDatetime(-3600), PyDatetime(5400)}
     ELSE {PyFloat(0), PyFloat(-3600), PyFloat(5400), PyFloat(7200)})

InitCodec ==
    \/ \E value_type \in DecodedValueTypes, json_str \in DecodeTexts, precision \in Precisions :
           InitHubCall(MakeClientId("ra", 0), MakeClientId("rb", 1), None, "full",
                       [fn |-> "unwrap",
                        args |-> [value_type |-> value_type, json_str |-> json_str,
                                  precision |-> precision, enum |-> enum_of(value_type)],
                        result |-> None])
    \/ \E value_type \in WrappedValueTypes, precision \in Precisions :
           \E value \in RoundTripValues(value_type) :
               InitHubCall(MakeClientId("ra", 0), MakeClientId("rb", 1), None, "full",
                           [fn |-> "wrap",
                            args |-> [value_type |-> value_type, value |-> value,
                                      precision |-> precision, enum |-> enum_of(value_type)],
                            result |-> None])

NextCodec ==
    \/ Unwrap
    \/ Wrap
    \/ UnwrapWrapped

SpecCodec == InitCodec /\ [][NextCodec]_vars

\* SpecDepends: a hub in experimental mode receives metrics with
\* dependencies, a number with a dynamic range whose payload may carry an
\* infinite bound, the flag of an adjustable number, and completions with
\* its own echo.
TopicCurrent == <<"N", "123", "system", "0", "Dc", "Battery", "Current">>
TopicTimeToGo == <<"N", "123", "system", "0", "Dc", "Battery", "TimeToGo">>
TopicSetPoint == <<"N", "123", "settings", "0", "Settings", "CGwacs", "AcPowerSetPoint">>

KeyCurrent == <<"system", "0", <<"system_dc_battery_current">> >>
KeyTimeToGo == <<"system", "0", <<"system_dc_battery_time_to_go">> >>
KeySetPoint == <<"system", "0", <<"system_ac_power_set_point">> >>
KeyChargeEnergyTotal == <<"system", "0", <<"system_dc_battery_charge_energy_total">> >>

InitDepends ==
    InitHubMode(MakeClientId("ra", 0), MakeClientId("rb", 1), None, "experimental")

DependsMessages ==
    {<<TopicPower, ValuePayload(120)>>,
     <<TopicCurrent, ValuePayload(5)>>,
     <<TopicTimeToGo, ValuePayload(7)>>,
     <<TopicSetPoint, RangePayload(50, Some(Finite(-1000)), Some(Finite(1000)))>>,
     <<TopicSetPoint, RangePayload(50, None, Some(Infinity))>>,
     <<TopicFlag, ValuePayload(1)>>}

\* The event loop gets to run between two deliveries of the transport.
NextDepends ==
    \/ LoopIdle(\E m \in DependsMessages : OnMessage(m[1], m[2], ""))
    \/ KeepaliveStart
    \/ LoopIdle(CompletedOwnEcho)
    \/ LoopRun

SpecDepends == InitDepends /\ [][NextDepends]_vars

\* SpecReplace: the broker sends the retained value of a topic first and
\* the later readings after it, so that several messages for one key, null
\* payloads among them, arrive before and after the barriers.
ReplaceReadings ==
    {[topic |-> TopicPower, payload |-> ValuePayload(120), key |-> KeyPower, retained |-> TRUE],
     [topic |-> TopicPower, payload |-> ValuePayload(240), key |-> KeyPower, retained |-> FALSE],
     [topic |-> TopicPower, payload |-> ValuePayload(-100), key |-> KeyPower, retained |-> FALSE],
     [topic |-> TopicPower, payload |-> NullPayload, key |-> KeyPower, retained |-> FALSE],
     [topic |-> TopicLimit, payload |-> ValuePayload(16), key |-> KeyLimit, retained |-> TRUE],
     [topic |-> TopicLimit, payload |-> ValuePayload(20), key |-> KeyLimit, retained |-> FALSE]}

\* The hub has heard of the key: it is buffered or committed.
KeyKnown(key) == DictHas(metrics_placeholders, key) \/ DictHas(all_metrics, key)

MessageReplace ==
    \E r \in ReplaceReadings :
        /\ r.retained <=> ~KeyKnown(r.key)
        /\ OnMessage(r.topic, r.payload, "")

NextReplace ==
    \/ LoopIdle(MessageReplace)
    \/ KeepaliveStart
    \/ LoopIdle(CompletedOwnEcho)
    \/ LoopRun

SpecReplace == Init /\ [][NextReplace]_vars

\* SpecNaming: a solar charger publishes the power of a tracker and the
\* tracker's name, in either order and with a change of name, next to a
\* set point whose payload may make the barrier fail.
TopicTrackerName == <<"N", "123", "solarcharger", "170", "Pv", "2", "Name">>
TopicTrackerPower == <<"N", "123", "solarcharger", "170", "Pv", "2", "P">>

KeyTrackerName == <<"solarcharger", "170", <<"solarcharger_tracker_", "2", "_name">> >>
KeyTrackerPower == <<"solarcharger", "170", <<"solarcharger_tracker_", "2", "_power">> >>

NamingMessages ==
    {<<TopicTrackerName, ValuePayload("bar")>>,
     <<TopicTrackerName, ValuePayload("foo")>>,
     <<TopicTrackerPower, ValuePayload(1)>>,
     <<TopicSetPoint, RangePayload(50, Some(Finite(-1000)), Some(Finite(1000)))>>,
     <<TopicSetPoint, RangePayload(50, None, Some(Infinity))>>}

NextNaming ==
    \/ LoopIdle(\E m \in NamingMessages : OnMessage(m[1], m[2], ""))
    \/ KeepaliveStart
    \/ LoopIdle(CompletedOwnEcho)
    \/ LoopRun

SpecNaming == Init /\ [][NextNaming]_vars

\* SpecParse: ParsedTopic.from_topic on raw topics of every length from one
\* to seven segments, with each known device type, an unknown one and the
\* settings branch in the third segment, and a heartbeat.
ParseDeviceSegments == DeviceTypeCodes \cup {"settings", "bogus"}
ParseInnerSegments == {"CGwacs", "bogus"}
MaxSegments == 7

ParseBase(device, inner) ==
    <<"N", "123", device, "0", "Settings", inner, "AcPowerSetPoint">>

ParseTopics ==
    {SubSeq(ParseBase(device, inner), 1, n) :
        device \in ParseDeviceSegments, inner \in ParseInnerSegments, n \in 1..MaxSegments}
    \cup {<<"N", "123", "heartbeat">>}

\* What a call of from_topic ends with: an exception, or the value returned.
ParseOutcome(r) ==
    [raised |-> r = Raised, parsed |-> IF r = Raised THEN None ELSE r]

InitParse ==
    \E topic \in ParseTopics :
        InitHubCall(MakeClientId("ra", 0), MakeClientId("rb", 1), None, "full",
                    [fn |-> "from_topic", args |-> [topic |-> topic], result |-> None])

\* ParsedTopic.from_topic(topic)
FromTopic ==
    /\ call.fn = "from_topic"
    /\ call.result = None
    /\ call' = [call EXCEPT
                   !.result = Some(ParseOutcome(ParsedTopic_from_topic(call.args.topic)))]
    /\ event' = Event("from_topic", "", None, None, "", <<>>)
    /\ callFrame

NextParse == FromTopic

SpecParse == InitParse /\ [][NextParse]_vars

\* SpecAdjust: an adjustable number and its flag topic, which says yes at
\* any time and no once the number is a metric, next to a set point whose
\* payload may make the barrier fail.
AdjustMessages ==
    {<<TopicLimit, ValuePayload(16)>>,
     <<TopicFlag, ValuePayload(0)>>,
     <<TopicFlag, ValuePayload(1)>>,
     <<TopicSetPoint, RangePayload(50, Some(Finite(-1000)), Some(Finite(1000)))>>,
     <<TopicSetPoint, RangePayload(50, None, Some(Infinity))>>}

MessageAdjust ==
    \E m \in AdjustMessages :
        /\ m = <<TopicFlag, ValuePayload(0)>> => DictHas(all_metrics, KeyLimit)
        /\ OnMessage(m[1], m[2], "")

NextAdjust ==
    \/ LoopIdle(MessageAdjust)
    \/ KeepaliveStart
    \/ LoopIdle(CompletedOwnEcho)
    \/ LoopRun

SpecAdjust == Init /\ [][NextAdjust]_vars

\* SpecNull: readings of the battery power with a value and with null, over
\* several periods of the keepalive task and its silence pass.
NullMessages == {<<TopicPower, ValuePayload(120)>>, <<TopicPower, NullPayload>>}

NextNull ==
    \/ LoopIdle(\E m \in NullMessages : OnMessage(m[1], m[2], ""))
    \/ LoopIdle(CompletedOwnEcho)
    \/ LoopIdle(KeepaliveStart)
    \/ LoopIdle(KeepaliveWake)
    \/ LoopIdle(SetOnUpdate(KeyPower))
    \/ LoopIdle(TickSecond)
    \/ LoopIdle(TickSleep)
    \/ LoopRun

SpecNull == Init /\ [][NextNull]_vars

\* SpecRepeat: a hub without update frequency whose keepalive task runs long
\* enough for three silence passes, while power readings arrive or stay away
\* and the application registers update callbacks.  The clock is read at
\* multiples of the sleep; a task that is resumed late finds more than the
\* threshold elapsed.
NextRepeat ==
    \/ LoopIdle(OnMessage(TopicPower, ValuePayload(120), ""))
    \/ LoopIdle(CompletedOwnEcho)
    \/ LoopIdle(KeepaliveStart)
    \/ LoopIdle(KeepaliveWakeWithin(MaxRepeatKeepalive))
    \/ LoopIdle(SetOnUpdateAny)
    \/ LoopIdle(TickSleepWithin(MaxRepeatPeriods))
    \/ LoopRun

SpecRepeat == Init /\ [][NextRepeat]_vars

(***************************************************************************)
(* Echo isolation between hubs                                             *)
(***************************************************************************)
\* C1: a full_publish_completed message whose echo token was issued by a
\* different hub is ignored: it commits and clears no placeholder, activates
\* no formula, schedules no new-metric notification and does not release
\* the first-refresh waiter (no callback is handed to the event loop).
C1_ForeignEchoIgnored ==
    [][(event'.op \in {"completed", "snapshot_message"} /\ event'.owner = "other")
        => UNCHANGED <<metrics_placeholders, fallback_placeholders, all_metrics,
                       loop_queue, first_refresh_event, first_full_publish>>]_vars

\* C2: the first-refresh waiter is released only by a completion that echoes
\* the hub's own token or has no echo field, and then every metric committed
\* by that barrier is in the metric map the waiter observes.
C2_WaiterReleasedByOwnBarrier ==
    waiter = "released" =>
        /\ Get(first_refresh_setter).owner \in {"own", "none"}
        /\ \A key \in SeqToSet(Get(first_refresh_setter).new_metrics) :
              DictHas(all_metrics, key)

(***************************************************************************)
(* The resolution engine                                                   *)
(***************************************************************************)
\* C3: a formula metric is never constructed before all of its declared
\* dependencies exist as committed metrics on the same device: in the
\* insertion-ordered metric map every dependency a formula metric declares
\* is present for the formula's device and was inserted before the formula.
C3_FormulaAfterDependencies ==
    \A i \in 1..Len(all_metrics) :
        all_metrics[i][2].cls \in {"FormulaMetric", "WritableFormulaMetric"} =>
            \A d \in 1..Len(all_metrics[i][2].descriptor.depends_on) :
                \E j \in 1..(i - 1) :
                    all_metrics[j][1] =
                        <<all_metrics[i][1][1], all_metrics[i][1][2],
                          all_metrics[i][2].descriptor.depends_on[d]>>

\* A barrier has just created the charge-energy formula metric.
C3_FormulaActivated ==
    /\ event.op = "completed"
    /\ KeyChargeEnergy \in SeqToSet(event.new_metrics)
    /\ DictHas(all_metrics, KeyChargeEnergy)

\* C4: when a value of an adjustable topic and a value of its companion flag
\* topic are both buffered at a barrier (in whichever order they arrived),
\* the metric the barrier commits is writable if the flag is true (1) and
\* read-only if the flag is false (0).
C4_AdjustableFlagDecidesWritable ==
    [][(/\ event'.op = "completed"
        /\ event'.kind = "processed"
        /\ DictHas(metrics_placeholders, KeyLimit)
        /\ DictHas(fallback_placeholders, KeyLimit))
       => DictGet(all_metrics', KeyLimit).cls =
              IF DictGet(fallback_placeholders, KeyLimit).value
              THEN "WritableMetric" ELSE "Metric"]_vars

\* A barrier has just committed the current limit as a read-only metric.
C4_CommittedReadOnly ==
    /\ event.op = "completed"
    /\ event.kind = "processed"
    /\ KeyLimit \in SeqToSet(event.new_metrics)
    /\ DictGet(all_metrics, KeyLimit).cls = "Metric"

(***************************************************************************)
(* New-metric notifications                                                *)
(***************************************************************************)
\* C7: the new-metric callback runs at most once per metric: for every
\* committed metric, the invocations so far plus the invocations still
\* queued on the event loop number at most one.
C7_NewMetricCallbackAtMostOnce ==
    \A i \in 1..Len(all_metrics) :
        Calls(all_metrics[i][1])
        + Cardinality({q \in 1..Len(loop_queue) :
                          /\ loop_queue[q].cb = "on_new_metric"
                          /\ loop_queue[q].key = all_metrics[i][1]}) <= 1

\* The battery power metric has been reported, and a later barrier has
\* committed further metrics.
C7_LaterBarrierAfterReport ==
    /\ Calls(KeyPower) = 1
    /\ event.op = "completed"
    /\ event.kind = "processed"
    /\ event.new_metrics # <<>>

C5_NotifyOnChangeOrAlways ==
    [][(/\ event'.op = "message"
        /\ event'.kind = "metric"
        /\ DictGet(all_metrics, Get(event'.key)).on_update
        /\ (update_frequency_seconds = None \/ update_frequency_seconds = Some(0)))
       => (ScheduledIn(loop_queue, loop_queue',
                       Callback("on_update", Get(event'.key), event'.value, TRUE, ""))
           <=> (\/ update_frequency_seconds = Some(0)
                \/ event'.value # DictGet(all_metrics, Get(event'.key)).value))]_vars

\* Default frequency: a message repeating the metric's value has just been
\* handled and no callback was scheduled.
C5_RepeatedValueSilent ==
    /\ update_frequency_seconds = None
    /\ event.op = "message"
    /\ event.kind = "metric"
    /\ DictGet(all_metrics, KeyPower).on_update
    /\ loop_queue = <<>>

\* C6: with a positive update frequency F, a numeric message for a committed
\* metric (update callback registered) schedules the callback if and only if
\* the metric has not been notified before or at least F seconds have passed
\* since its last scheduled notification, whether or not the value changed;
\* so two notifications of the metric are at least F seconds apart.
C6_ThrottleWindow ==
    [][(/\ event'.op = "message"
        /\ event'.kind = "metric"
        /\ DictGet(all_metrics, Get(event'.key)).on_update
        /\ update_frequency_seconds # None
        /\ Get(update_frequency_seconds) > 0)
       => (ScheduledIn(loop_queue, loop_queue',
                       Callback("on_update", Get(event'.key), event'.value, TRUE, ""))
           <=> (\/ ~DictHas(last_notification, Get(event'.key))
                \/ now - DictGet(last_notification, Get(event'.key))
                      >= Get(update_frequency_seconds)))]_vars

\* Positive frequency: a message arriving inside the window after a
\* notification has just been handled without scheduling the callback.
C6_SuppressedInsideWindow ==
    /\ update_frequency_seconds = Some(UpdateFrequency)
    /\ event.op = "message"
    /\ event.kind = "metric"
    /\ DictGet(all_metrics, KeyPower).on_update
    /\ DictHas(last_notification, KeyPower)
    /\ now - DictGet(last_notification, KeyPower) < UpdateFrequency
    /\ loop_queue = <<>>

C10_NoValueKeepsFormula ==
    [][(/\ event'.op = "keepalive"
        /\ event'.kind = "metrics"
        /\ DictHas(all_metrics, KeyChargeEnergy)
        /\ DictGet(all_metrics, KeyPower).value # None
        /\ DictGet(all_metrics', KeyPower).value = None)
       => /\ DictGet(all_metrics', KeyChargeEnergy).value
               = DictGet(all_metrics, KeyChargeEnergy).value
          /\ \A q \in (Len(loop_queue) + 1)..Len(loop_queue') :
                ~(loop_queue'[q].cb = "on_update" /\ loop_queue'[q].key = KeyChargeEnergy)]_vars

\* The silence pass has just reset the battery power while the charge-energy
\* formula metric is active.
C10_DependencyReset ==
    /\ event.op = "keepalive"
    /\ event.kind = "metrics"
    /\ DictHas(all_metrics, KeyChargeEnergy)
    /\ DictGet(all_metrics, KeyPower).value = None

(***************************************************************************)
(* Silence pass                                                            *)
(***************************************************************************)
\* C11: a silence pass resets to null every metric that has not handled a
\* value for longer than the threshold (60 s without an update frequency,
\* otherwise min(60, 3 x frequency)) and schedules its update callback with
\* null; and while the keepalive task runs, a metric with a value whose
\* threshold expires before the next pass and which receives no further
\* message is eventually reset.
C11_SilentMetricReset ==
    /\ [][(/\ event'.op = "keepalive"
            /\ event'.kind = "metrics")
           => \A i \in 1..Len(all_metrics) :
                LET key == all_metrics[i][1]
                    self == all_metrics[i][2]
                    threshold == IF update_frequency_seconds = None THEN 60
                                 ELSE Min(60, 3 * Get(update_frequency_seconds))
                IN  now - self.last_seen > threshold
                    => /\ DictGet(all_metrics', key).value = None
                       /\ (self.on_update /\ self.value # None)
                            => ScheduledIn(loop_queue, loop_queue',
                                           Callback("on_update", key, None, TRUE, ""))]_vars
    /\ \A key \in {KeyPower, KeyChargeEnergy} :
          (IF DictHas(all_metrics, key)
           THEN /\ keepalive_pc = "sleep"
                /\ EarliestPass <= StartTime + KEEPALIVE_SLEEP * MaxPeriods + MaxTick
                /\ DictGet(all_metrics, key).value # None
                /\ DictGet(all_metrics, key).last_seen
                      + (IF update_frequency_seconds = None THEN 60
                         ELSE Min(60, 3 * Get(update_frequency_seconds)))
                    < EarliestPass
           ELSE FALSE)
          ~> (IF DictHas(all_metrics, key)
              THEN DictGet(all_metrics, key).value = None \/ event.op = "message"
              ELSE FALSE)

\* The silence pass has just reset the battery power, whose update callback
\* is now queued with null.
C11_ResetNotified ==
    /\ event.op = "keepalive"
    /\ event.kind = "metrics"
    /\ DictHas(all_metrics, KeyPower)
    /\ DictGet(all_metrics, KeyPower).value = None
    /\ DictGet(all_metrics, KeyPower).on_update
    /\ \E q \in 1..Len(loop_queue) :
          loop_queue[q] = Callback("on_update", KeyPower, None, TRUE, "")

\* C12: when the throttle window has suppressed the notification of a changed
\* value (the metric's value, received after the last callback, differs from
\* the one handed to that callback), the next silence pass schedules the
\* update callback with the pending value.
C12_PendingValueFlushed ==
    [][(/\ event'.op = "keepalive"
        /\ event'.kind = "metrics")
       => \A i \in 1..Len(all_metrics) :
            LET key == all_metrics[i][1]
                self == all_metrics[i][2]
            IN  (/\ self.on_update
                 /\ self.value # None
                 /\ self.notified # None
                 /\ Get(self.notified) # self.value
                 /\ self.last_seen > self.last_update
                 /\ now - self.last_seen <= silence_timeout)
                => ScheduledIn(loop_queue, loop_queue',
                               Callback("on_update", key, self.value, TRUE, ""))]_vars

\* A silence pass has run and the battery power still holds a value that
\* differs from the one last handed to its update callback.
C12_PendingAfterPass ==
    /\ event.op = "keepalive"
    /\ event.kind = "metrics"
    /\ DictHas(all_metrics, KeyPower)
    /\ DictGet(all_metrics, KeyPower).on_update
    /\ DictGet(all_metrics, KeyPower).value # None
    /\ DictGet(all_metrics, KeyPower).notified # None
    /\ Get(DictGet(all_metrics, KeyPower).notified) # DictGet(all_metrics, KeyPower).value
    /\ DictGet(all_metrics, KeyPower).last_seen > DictGet(all_metrics, KeyPower).last_update

(***************************************************************************)
(* Concurrency and error handling                                          *)
(***************************************************************************)
\* C13: every step that changes the device/metric graph (devices,
\* buffered placeholders, committed metrics and their values) runs on the
\* event loop; the transport thread only hands work over.
C13_GraphMutatedOnLoopOnly ==
    [][(\/ devices' # devices
        \/ metrics_placeholders' # metrics_placeholders
        \/ fallback_placeholders' # fallback_placeholders
        \/ all_metrics' # all_metrics)
       => ExecutionContext(event'.op) = "loop"]_vars

\* The transport thread has just handled a message for a committed metric.
C13_TransportUpdatedMetric ==
    /\ ExecutionContext(event.op) = "transport"
    /\ event.kind = "metric"
    /\ DictGet(all_metrics, Get(event.key)).value = event.value

\* C14: the thread that handles an MQTT message never runs an application
\* callback itself: whenever it decides to notify (a metric's on_update, or
\* on_new_metric for a metric a barrier has just committed) the callback is
\* handed to the event loop's queue, and callbacks run only on the loop.
C14_CallbacksScheduledOnLoop ==
    [][/\ ExecutionContext(event'.op) = "transport"
          => /\ new_metric_log' = new_metric_log
             /\ \A i \in 1..Len(all_metrics') :
                  LET key == all_metrics'[i][1]
                      before == IF DictHas(all_metrics, key)
                                THEN DictGet(all_metrics, key).notified ELSE None
                  IN  all_metrics'[i][2].notified # before
                      => ScheduledIn(loop_queue, loop_queue',
                                     Callback("on_update", key,
                                              Get(all_metrics'[i][2].notified), TRUE, ""))
             /\ (event'.kind = "processed" /\ on_new_metric)
                  => \A n \in 1..Len(event'.new_metrics) :
                        \E q \in (Len(loop_queue) + 1)..Len(loop_queue') :
                            /\ loop_queue'[q].cb = "on_new_metric"
                            /\ loop_queue'[q].key = event'.new_metrics[n]
       /\ new_metric_log' # new_metric_log => ExecutionContext(event'.op) = "loop"]_vars

\* The transport thread has handled a message that changed a metric with a
\* registered update callback: the callback waits in the loop's queue.
C14_UpdateQueuedByTransport ==
    /\ ExecutionContext(event.op) = "transport"
    /\ event.kind = "metric"
    /\ DictGet(all_metrics, Get(event.key)).on_update
    /\ DictGet(all_metrics, Get(event.key)).notified = Some(event.value)
    /\ \E q \in 1..Len(loop_queue) :
          loop_queue[q] = Callback("on_update", Get(event.key), event.value, TRUE, "")

C17_ConnectEndsOrCannotConnect ==
    /\ [][/\ (conn.pc # "done" /\ conn'.pc = "done")
                => /\ conn'.result \in {"completed", "CannotConnectError"}
                   /\ (event'.kind \in {"wait_for_connect_timeout",
                                        "read_installation_id_timeout"}
                         => conn'.result = "CannotConnectError")
                   /\ (conn.pc = "wait_connect" /\ (conn.connect_failed \/ ~conn.client)
                         => conn'.result = "CannotConnectError")
                   /\ (conn'.result = "completed"
                         => conn'.installation_id # None /\ keepalive_pc' = "start")
          /\ conn'.pc # "done" => conn'.result = "pending"
          /\ (waiter = "waiting" /\ waiter' # "waiting")
                => /\ waiter' \in {"released", "CannotConnectError"}
                   /\ waiter' = "released" <=> first_refresh_event]_vars
    /\ (conn.pc \in {"wait_connect", "wait_installation_id"}) ~> (conn.pc = "done")
    /\ (waiter = "waiting") ~> (waiter \in {"released", "CannotConnectError"})

\* The installation id wait expired and connect() ended with CannotConnectError.
C17_InstallationIdWaitExpired ==
    /\ event.op = "connect"
    /\ event.kind = "read_installation_id_timeout"
    /\ conn.result = "CannotConnectError"


\* C18: no topic the Hub asks the broker to subscribe to for metric traffic
\* (every request but the installation id discovery topic) contains the
\* literal "{installation_id}" or starts with "N/+", whatever the order of
\* connect(), the connection callbacks and reconnects.
C18_SubscriptionsResolved ==
    \A topic \in conn.requests \ {TOPIC_INSTALLATION_ID} :
        /\ "{installation_id}" \notin SeqToSet(topic)
        /\ ~(Len(topic) >= 2 /\ topic[1] = "N" /\ topic[2] = "+")

\* The client reconnected while connect() had not yet replaced the
\* placeholder, and _setup_subscriptions subscribed the list as it stood.
C18_ReconnectBeforeReplacement ==
    /\ event.op = "on_connect"
    /\ conn.connects >= 2
    /\ conn.pc \in {"wait_connect", "wait_installation_id"}
    /\ \E topic \in conn.requests : "{installation_id}" \in SeqToSet(topic)


\* C19: Hub.publish raises TopicNotFoundError exactly when the short id is
\* not the short id of a service descriptor, and then hands nothing to the
\* client; for a service descriptor's short id a Hub that has its client
\* hands over exactly one message, on the descriptor's topic with the
\* installation id and the device id in place of their placeholders.
C19_PublishOneOrTopicNotFound ==
    [][\A short_id \in PublishShortIds, device_id \in PublishDeviceIds, value \in PublishValues :
          Publish(short_id, device_id, value) =>
              LET registered == \E i \in 1..Len(topics) :
                                    /\ topics[i].message_type = "service"
                                    /\ topics[i].short_id = short_id
              IN  /\ (event'.kind = "TopicNotFoundError") <=> ~registered
                  /\ ~registered => conn'.published = conn.published
                  /\ (registered /\ conn.client) =>
                        /\ Len(conn'.published) = Len(conn.published) + 1
                        /\ SubSeq(conn'.published, 1, Len(conn.published)) = conn.published
                        /\ conn'.published[Len(conn'.published)].topic =
                              <<"W", "123", "generator", device_id, "ServiceCounterReset">>
                        /\ conn'.published[Len(conn'.published)].payload =
                              (IF value = None THEN EmptyPayload
                               ELSE ValuePayload(Get(value)))]_vars

\* A message went out for the service descriptor and a later publish with an
\* unknown short id was refused.
C19_RefusedAfterPublished ==
    /\ event.op = "publish"
    /\ event.kind = "TopicNotFoundError"
    /\ Len(conn.published) = 1
    /\ conn.published[1].topic = <<"W", "123", "generator", "170", "ServiceCounterReset">>


\* C20: the write topic of every writable metric is its read topic (the
\* descriptor's topic with the installation id and the device id filled in)
\* with the first segment "N" replaced by "W" and every other segment kept,
\* and set(value) hands the client exactly one message, the encoded value on
\* that topic.
C20_WriteTopicMirrorsReadTopic ==
    /\ [](\A i \in 1..Len(all_metrics) :
            LET self == all_metrics[i][2]
                read_topic == [j \in 1..Len(self.descriptor.topic) |->
                                  IF j = 2 THEN "123"
                                  ELSE IF j = 4 THEN self.hub_unique_id[2]
                                  ELSE self.descriptor.topic[j]]
            IN  self.cls = "WritableMetric" =>
                    /\ self.write_topic # None
                    /\ read_topic[1] = "N"
                    /\ Len(Get(self.write_topic)) = Len(read_topic)
                    /\ Get(self.write_topic)[1] = "W"
                    /\ \A j \in 2..Len(read_topic) : Get(self.write_topic)[j] = read_topic[j])
    /\ [][\A value \in SetValues :
            (WritableMetric_set(KeyLimit, value) /\ conn.client) =>
                conn'.published =
                    Append(conn.published,
                           [topic |-> <<"W", "123", "vebus", "170", "Ac", "ActiveIn", "CurrentLimit">>,
                            payload |-> ValuePayload(value)])]_vars

\* set(42) on the committed current limit went out on its write topic.
C20_SetPublished ==
    /\ event.op = "set"
    /\ event.kind = "published"
    /\ event.key = Some(KeyLimit)
    /\ conn.published # <<>>
    /\ conn.published[Len(conn.published)] =
          [topic |-> <<"W", "123", "vebus", "170", "Ac", "ActiveIn", "CurrentLimit">>,
           payload |-> ValuePayload(42)]


(***************************************************************************)
(* Operation modes, client ids, the keepalive task                         *)
(***************************************************************************)
MetricKinds ==
    {"attribute", "sensor", "binary_sensor", "switch", "select", "number", "button", "time"}

\* C21: in read-only mode every descriptor of a writable kind is active with
\* a sensor or binary-sensor kind, and no committed metric is a writable one,
\* whatever data messages and adjustable flags arrive.
C21_ReadOnlyNoWritableMetric ==
    operation_mode = "read_only" =>
        /\ \A kind \in MetricKinds :
              metrics_active_topic(operation_mode,
                                   [DescCurrentLimit EXCEPT !.message_type = kind]).message_type
                  \in {"attribute", "sensor", "binary_sensor"}
        /\ \A i \in 1..Len(expanded_topics) :
              expanded_topics[i].message_type \notin WritableKinds
        /\ \A i \in 1..Len(all_metrics) :
              all_metrics[i][2].cls \notin {"WritableMetric", "WritableFormulaMetric"}

\* The current limit, a number descriptor, was committed in read-only mode as
\* a plain Metric.
C21_AdjustableCommittedReadOnly ==
    /\ operation_mode = "read_only"
    /\ DictHas(all_metrics, KeyLimit)
    /\ event.op = "completed"
    /\ \E i \in 1..Len(all_metrics) :
          all_metrics[i][1] = KeyLimit /\ all_metrics[i][2].cls = "Metric"


\* C22: two Hubs created in one process, one after the other or at the same
\* time, end up with different client ids.
C22_ClientIdsDistinct ==
    (process.init[1].pc = "done" /\ process.init[2].pc = "done")
        => client_id # other_client_id

\* Both constructors ran at the same time and took the same instance id.
C22_SameInstanceId ==
    /\ process.init[1].pc = "done"
    /\ process.init[2].pc = "done"
    /\ event.op = "init"
    /\ process.init[1].instance_id = process.init[2].instance_id

\* C23: stopping the keepalive task, by _stop_keepalive_loop or by
\* disconnect, raises nothing whatever the state of the task (never started,
\* running, finished, already cancelled), and leaves the Hub without a
\* reference to a task.
C23_StopNeverRaisesAndDropsTask ==
    [][(event'.op \in {"stop_keepalive_loop", "disconnect"})
       => (keepalive_task'.raised = None /\ keepalive_task'.ref = None)]_vars

\* The task has been stopped in each of its four states.
C23_StoppedInEveryState ==
    /\ keepalive_task.stopped_in = {"never_started", "running", "finished", "already_cancelled"}
    /\ keepalive_task.raised = None
    /\ keepalive_task.ref = None
    /\ event.op \in {"stop_keepalive_loop", "disconnect"}

(***************************************************************************)
(* Topic expansion and value conversion                                    *)
(***************************************************************************)
\* The descriptors of an expansion that come from the range descriptor.
C24_Expanded ==
    SelectSeq(Get(call.result), LAMBDA d : d.short_id = <<"switch_{output}_state">>)

\* C24: a descriptor with the range placeholder name(a-b) expands to exactly
\* b-a+1 descriptors, one per index of a..b, each with key_values[name] the
\* index written as a string and no placeholder syntax left in its topic.
C24_ExpansionOnePerIndex ==
    (call.fn = "expand_topic_list" /\ call.result # None)
    => /\ Len(C24_Expanded) = call.args.end - call.args.start + 1
       /\ \A i \in call.args.start..call.args.end :
              Cardinality({n \in DOMAIN C24_Expanded :
                              /\ DOMAIN C24_Expanded[n].key_values = {call.args.name}
                              /\ C24_Expanded[n].key_values[call.args.name] = Digits(i)}) = 1
       /\ \A n \in DOMAIN C24_Expanded : \A k \in DOMAIN C24_Expanded[n].topic :
              C24_Expanded[n].topic[k] \notin {"{", "}", "(", ")"}

\* A range of at least three indices, written with a leading zero and
\* reaching a two-digit index, has been expanded.
C24_RangeExpanded ==
    /\ call.fn = "expand_topic_list"
    /\ call.result # None
    /\ call.args.padded
    /\ call.args.end >= 10
    /\ call.args.end - call.args.start >= 2
    /\ Len(C24_Expanded) >= 3

\* The encoder has returned or raised, and if it returned the decoder has run.
C25_RoundTripDone ==
    /\ call.fn = "wrap"
    /\ call.result # None
    /\ (Get(call.result).encoded.raised # "" \/ Get(call.result).decoded # None)

\* C25: for every value type with a decoder and an encoder and for zero,
\* negative values, other values and the null sentinel of the type, the
\* encoder returns a text and the decoder gives back the value encoded.
C25_DecodeEncodeRoundTrip ==
    C25_RoundTripDone
    => IF Get(call.result).encoded.raised # "" THEN FALSE
       ELSE /\ Get(Get(call.result).decoded).raised = ""
            /\ PyEq(Get(Get(call.result).decoded).value, call.args.value)

\* The encoder of the enum type was given None, the value its decoder
\* returns for an explicit null, and raised TypeError.
C25_EnumNullNotEncoded ==
    /\ C25_RoundTripDone
    /\ call.args.value_type = "enum"
    /\ call.args.value = PyNone
    /\ Get(call.result).encoded.raised = "TypeError"

\* The payloads of C26 that hold no usable value: malformed text, JSON that
\* is not an object, an object without a value member, an explicit null.
C26_NoValue(json_str) == ~json_str.parses \/ ~json_str.has_value \/ json_str.value = PyNone

\* C26: no decoder raises, whatever the payload, and for a payload without
\* a usable value it returns null, or zero for the type whose default is
\* zero.
C26_DecodersFailClosed ==
    (call.fn = "unwrap" /\ call.result # None)
    => /\ Get(call.result).raised = ""
       /\ C26_NoValue(call.args.json_str)
          => Get(call.result).value = NullSentinel(call.args.value_type)

\* unwrap_float was given a JSON array and raised AttributeError.
C26_FloatRaisedOnArray ==
    /\ call.fn = "unwrap"
    /\ call.result # None
    /\ call.args.value_type = "float"
    /\ call.args.json_str = ScalarText(PyList)
    /\ Get(call.result).raised = "AttributeError"

(***************************************************************************)
(* Dependencies at the barrier                                             *)
(***************************************************************************)
\* The last step was a completion with the hub's own echo: a barrier that is
\* not ignored.  Its kind is "processed", or "caught" when the handler raised.
OwnBarrier(e) == e.op = "completed" /\ e.owner = "own"

\* The declared dependencies of the regular metric stored under key are all
\* committed metrics.
DependenciesCommitted(metrics, key) ==
    LET depends_on == DictGet(metrics, key).descriptor.depends_on
    IN  \A i \in 1..Len(depends_on) :
            DictHas(metrics,
                    dependency_metric_name(depends_on[i], ("{device_id}" :> key[2])))

\* C27: a placeholder with dependencies that a barrier made a metric has
\* every declared dependency among the committed metrics, at the latest
\* when that barrier is done.
C27_CommittedOnlyWithDependencies ==
    [][OwnBarrier(event')
       => \A n \in 1..Len(event'.new_metrics) :
              LET key == event'.new_metrics[n]
              IN  ~DictGet(all_metrics', key).descriptor.is_formula
                  => DependenciesCommitted(all_metrics', key)]_vars

\* The time to go, which depends on the current, is a metric, and the
\* current is not: it was only a placeholder, itself skipped for want of the
\* power metric.
C27_CommittedOnPlaceholderDependency ==
    /\ DictHas(all_metrics, KeyTimeToGo)
    /\ ~DictHas(all_metrics, KeyCurrent)
    /\ ~DictHas(all_metrics, KeyPower)

\* C28: a placeholder skipped at a barrier for an unsatisfied dependency is
\* still buffered after that barrier.
C28_SkippedStaysPending ==
    [][(OwnBarrier(event') /\ event'.kind = "processed")
       => \A i \in 1..Len(metrics_placeholders) :
              ~is_regular_dependency_met(all_metrics, metrics_placeholders[i][2])
              => DictHas(metrics_placeholders', metrics_placeholders[i][1])]_vars

\* The barrier just processed committed the time to go, so the current was
\* buffered with it; the current was skipped (it is no metric) and is
\* buffered no more.
C28_SkippedPlaceholderDropped ==
    /\ OwnBarrier(event) /\ event.kind = "processed"
    /\ \E n \in 1..Len(event.new_metrics) : event.new_metrics[n] = KeyTimeToGo
    /\ ~DictHas(all_metrics, KeyCurrent)
    /\ ~DictHas(metrics_placeholders, KeyCurrent)

\* C29: right after a barrier that is not ignored the placeholder buffer and
\* the fallback buffer are empty, also when a placeholder failed.
C29_BuffersEmptyAfterBarrier ==
    OwnBarrier(event) => metrics_placeholders = <<>> /\ fallback_placeholders = <<>>

\* The barrier raised while it made a metric of the set point placeholder
\* with the infinite bound; both buffers still hold their entries.
C29_BuffersKeptAfterFailure ==
    /\ OwnBarrier(event) /\ event.kind = "caught"
    /\ DictHas(metrics_placeholders, KeySetPoint)
    /\ fallback_placeholders # <<>>

\* The formula of descriptor topic is active on device.
FormulaActive(metrics, topic, device) ==
    DictHas(metrics, make_hub_unique_id(device, topic.short_id))

\* C30: a pending formula whose dependencies are committed metrics of a
\* matching device when a barrier comes is active after that barrier,
\* whether the dependencies are plain metrics or formulas.
C30_FormulaActivatedAtBarrier ==
    [][OwnBarrier(event')
       => \A t \in 1..Len(pending_formula_topics) : \A d \in 1..Len(devices) :
              (/\ devices[d][1] = pending_formula_topics[t].topic[2]
               /\ is_formula_dependency_met(all_metrics, pending_formula_topics[t],
                                             devices[d]).is_met)
              => FormulaActive(all_metrics', pending_formula_topics[t], devices[d])]_vars

\* A barrier was processed and had nothing to commit; the charge energy
\* formula, active since an earlier barrier, is the dependency of the total,
\* and the total is not active.
C30_FormulaNotRetried ==
    /\ OwnBarrier(event) /\ event.kind = "processed"
    /\ event.new_metrics = <<>>
    /\ DictHas(all_metrics, KeyChargeEnergy)
    /\ ~DictHas(all_metrics, KeyChargeEnergyTotal)

(***************************************************************************)
(* Routing of messages for committed metrics                               *)
(***************************************************************************)
\* C31: no key is at once in the placeholder buffer and in the map of
\* committed metrics; a message for a key that has a metric goes to the
\* metric and is not buffered.
C31_NoKeyBufferedAndCommitted ==
    \A i \in 1..Len(metrics_placeholders) :
        ~DictHas(all_metrics, metrics_placeholders[i][1])

\* The barrier made a metric of the power placeholder and then raised on the
\* set point placeholder with the infinite bound: the buffers were not
\* cleared, and the power is a metric and a placeholder at once.
C31_CommittedStillBuffered ==
    /\ OwnBarrier(event) /\ event.kind = "caught"
    /\ DictHas(all_metrics, KeyPower)
    /\ DictHas(metrics_placeholders, KeyPower)
    /\ DictHas(metrics_placeholders, KeySetPoint)

\* C32: a message with a value for a key that has no metric puts that value
\* in the buffer, replacing what was buffered, and is not an error; the
\* buffered value changes in no other way; and the metric a barrier makes
\* of the placeholder carries the buffered value, that of the last such
\* message before the barrier.
C32_LastValueBeforeBarrierWins ==
    [][/\ \A r \in ReplaceReadings :
            (/\ OnMessage(r.topic, r.payload, "")
             /\ r.payload.value # None
             /\ ~DictHas(all_metrics, r.key))
            => /\ event'.kind = "placeholder"
               /\ DictHas(metrics_placeholders', r.key)
               /\ DictGet(metrics_placeholders', r.key).value = r.payload.value
       /\ \A i \in 1..Len(metrics_placeholders) :
            LET key == metrics_placeholders[i][1]
            IN  /\ (/\ DictHas(metrics_placeholders', key)
                    /\ DictGet(metrics_placeholders', key) # metrics_placeholders[i][2])
                   => /\ event'.op = "message"
                      /\ event'.kind = "placeholder"
                      /\ event'.key = Some(key)
                /\ (/\ OwnBarrier(event')
                    /\ \E n \in 1..Len(event'.new_metrics) : event'.new_metrics[n] = key)
                   => DictGet(all_metrics', key).value = metrics_placeholders[i][2].value]_vars

\* The barrier just processed made the power a metric with the value 240,
\* a reading the broker sent after the retained 120 had been buffered.
C32_ReplacedValueCommitted ==
    /\ OwnBarrier(event) /\ event.kind = "processed"
    /\ \E n \in 1..Len(event.new_metrics) : event.new_metrics[n] = KeyPower
    /\ DictGet(all_metrics, KeyPower).value = Some(240)

(***************************************************************************)
(* Second-phase naming                                                     *)
(***************************************************************************)
\* The barrier just processed committed the metric under key.
CommittedAt(e, key) ==
    /\ OwnBarrier(e) /\ e.kind = "processed"
    /\ \E n \in 1..Len(e.new_metrics) : e.new_metrics[n] = key

\* C33: the naming pass of a barrier follows all its commits: when a barrier
\* commits the tracker power, whose name refers to the tracker name, and
\* the tracker name with it, the power's name carries the value of the name
\* metric, whichever of the two was buffered first.
C33_NamingAfterAllCommits ==
    [][(CommittedAt(event', KeyTrackerPower) /\ CommittedAt(event', KeyTrackerName))
       => LET value == Get(DictGet(all_metrics', KeyTrackerName).value)
              power == DictGet(all_metrics', KeyTrackerPower)
          IN  /\ power.name = <<"PV Tracker ", value, " Power">>
              /\ power.key_values["{tracker}"] = value
              /\ DictGet(all_metrics', KeyTrackerName).name
                    = <<"PV Tracker ", "2", " Name">>]_vars

\* The power was buffered first and committed first, the name after it in
\* the same barrier, and the power is called after the name's value.
C33_ForwardReferenceResolved ==
    /\ OwnBarrier(event) /\ event.kind = "processed"
    /\ event.new_metrics = <<KeyTrackerPower, KeyTrackerName>>
    /\ DictGet(all_metrics, KeyTrackerName).value = Some("foo")
    /\ DictGet(all_metrics, KeyTrackerPower).name = <<"PV Tracker ", "foo", " Power">>

(***************************************************************************)
(* Formula metrics in the silence pass                                     *)
(***************************************************************************)
\* The engine as the loop of Hub._keepalive_metrics finds it when it comes
\* to the n-th metric, having called _keepalive on the metrics i..n-1.
RECURSIVE keepalive_metrics_before(_, _, _)
keepalive_metrics_before(st0, i, n) ==
    With(st0, LAMBDA st :
        IF i >= n THEN st
        ELSE keepalive_metrics_before(Metric_keepalive(st, st.all_metrics[i][1]), i + 1, n))

Dependents(metrics, key) ==
    IF DictHas(metrics, key) THEN SeqToSet(DictGet(metrics, key).depend_on_me) ELSE {}

\* The keys reached from the set keys in one to n steps of that relation.
RECURSIVE DependentsWithin(_, _, _)
DependentsWithin(metrics, keys, n) ==
    IF n = 0 THEN {}
    ELSE LET next == UNION {Dependents(metrics, k) : k \in keys}
         IN  next \cup DependentsWithin(metrics, next, n - 1)

\* C35: no metric is its own dependent, directly or through other metrics,
\* and the dependents of a metric are formula metrics of the metric map: the
\* recomputes started by one update run through a finite chain.
C35_DependentsAcyclic ==
    \A i \in 1..Len(all_metrics) :
        LET key == all_metrics[i][1]
            reached == DependentsWithin(all_metrics, {key}, Len(all_metrics))
        IN  /\ key \notin reached
            /\ \A k \in reached :
                  DictHas(all_metrics, k) /\ DictGet(all_metrics, k).descriptor.is_formula

\* The power has just handled a reading, and its update ran through a chain
\* of two formulas: the charge energy depends on the power, the total on
\* the charge energy.
C35_CascadeThroughTwoFormulas ==
    /\ event.op = "message" /\ event.kind = "metric" /\ event.key = Some(KeyPower)
    /\ KeyChargeEnergy \in Dependents(all_metrics, KeyPower)
    /\ KeyChargeEnergyTotal \in Dependents(all_metrics, KeyChargeEnergy)
    /\ DictGet(all_metrics, KeyChargeEnergyTotal).last_seen = now

(***************************************************************************)
(* The topic parser                                                        *)
(***************************************************************************)
\* from_topic has returned or raised.
ParseDone == call.fn = "from_topic" /\ call.result # None

\* The segment that names the device type: the third, or for the settings
\* branch the sixth; None when the topic does not reach that far.  The
\* heartbeat of the root has none and belongs to the system device.
DeviceTypeSegment(topic) ==
    IF Len(topic) < 3 THEN None
    ELSE IF Len(topic) = 3 /\ topic[3] = "heartbeat" THEN Some("system")
    ELSE IF topic[3] # "settings" THEN Some(topic[3])
    ELSE IF Len(topic) < 6 THEN None
    ELSE Some(topic[6])

\* C36: from_topic never raises, for a settings topic of any length either,
\* and it returns null for a topic of fewer than three segments and for a
\* topic whose device-type segment is no known device type.
C36_ParserTotal ==
    ParseDone
    => LET topic == call.args.topic
           outcome == Get(call.result)
           segment == DeviceTypeSegment(topic)
       IN  /\ ~outcome.raised
           /\ (\/ Len(topic) < 3
               \/ (segment # None /\ Get(segment) \notin DeviceTypeCodes))
              => outcome.parsed = None

\* from_topic was given N/123/settings/0/Settings, a settings topic that
\* ends before its sixth segment, and raised IndexError.
C36_ShortSettingsTopicRaised ==
    /\ ParseDone
    /\ call.args.topic = TopicSettingsShort
    /\ Get(call.result).raised

(***************************************************************************)
(* Writability after the commit                                            *)
(***************************************************************************)
\* C37: a committed metric stays in the metric map as the kind of metric it
\* was committed as: no later step, a flag message and the barrier after it
\* included, makes a writable metric read-only or a read-only one writable.
C37_WritabilityFixedAtCommit ==
    [][\A i \in 1..Len(all_metrics) :
          LET key == all_metrics[i][1]
          IN  /\ DictHas(all_metrics', key)
              /\ DictGet(all_metrics', key).cls = all_metrics[i][2].cls
              /\ DictGet(all_metrics', key).descriptor.message_type
                    = all_metrics[i][2].descriptor.message_type]_vars

\* The current limit is a read-only metric.  The flag says no only once the
\* limit is a metric, so the limit had been committed as a writable metric:
\* by a barrier that then raised on the set point with the infinite bound
\* and left the limit's placeholder in the buffer.  The flag said no
\* afterwards, and a later barrier made a new, read-only metric of that
\* placeholder.
C37_WritableBecameReadOnly ==
    /\ OwnBarrier(event)
    /\ DictHas(all_metrics, KeyLimit)
    /\ DictGet(all_metrics, KeyLimit).cls = "Metric"
    /\ DictGet(all_metrics, KeyLimit).descriptor.message_type = "sensor"
    /\ DictGet(all_metrics, KeyLimit).write_topic = None

(***************************************************************************)
(* Null payloads for committed metrics                                     *)
(***************************************************************************)
\* C38: a message that is dropped leaves every metric as it was, and a
\* metric that is no formula loses its value in one kind of step only, the
\* silence pass of the keepalive task, after it has been silent for longer
\* than the threshold.
C38_NullOnlyBySilenceReset ==
    [][/\ (event'.op = "message" /\ event'.kind = "dropped") => all_metrics' = all_metrics
       /\ \A i \in 1..Len(all_metrics) :
            LET key == all_metrics[i][1]
                self == all_metrics[i][2]
            IN  (/\ ~self.descriptor.is_formula
                 /\ self.value # None
                 /\ DictHas(all_metrics', key)
                 /\ DictGet(all_metrics', key).value = None)
                => /\ event'.op = "keepalive"
                   /\ event'.kind = "metrics"
                   /\ now - self.last_seen > silence_timeout]_vars

\* The power metric has its value, the pass has not reset it, and the last
\* message, the power with a null value, was dropped.
C38_NullMessageDropped ==
    /\ event.op = "message" /\ event.kind = "dropped"
    /\ DictHas(all_metrics, KeyPower)
    /\ DictGet(all_metrics, KeyPower).value = Some(120)
    /\ DictGet(all_metrics, KeyPower).last_seen < now

(***************************************************************************)
(* WritableMetric.set and the local state                                  *)
(***************************************************************************)
\* C39: set(value) on a committed writable metric changes nothing the Hub
\* keeps: the metrics (value, last-seen and last-update times, the value last
\* handed to on_update), the devices, the buffers and the last notification
\* are as before and no callback is put on the event loop; a Hub that has
\* its client hands it exactly one message.  The value of the metric changes
\* only in a step that delivers a message on the metric's own topic.
C39_SetChangesNoLocalState ==
    [][/\ \A value \in SetValues :
            WritableMetric_set(KeyLimit, value) =>
                /\ all_metrics' = all_metrics
                /\ devices' = devices
                /\ metrics_placeholders' = metrics_placeholders
                /\ fallback_placeholders' = fallback_placeholders
                /\ last_notification' = last_notification
                /\ loop_queue' = loop_queue
                /\ now' = now
                /\ conn.client => Len(conn'.published) = Len(conn.published) + 1
       /\ (/\ DictHas(all_metrics, KeyLimit)
           /\ DictHas(all_metrics', KeyLimit)
           /\ DictGet(all_metrics', KeyLimit).value # DictGet(all_metrics, KeyLimit).value)
          => \E m \in PublishMessages : m[1] = TopicLimit /\ OnMessage(m[1], m[2], "")]_vars

\* set(42) went out while the current limit keeps the 16 of its last message
\* and the time it was seen.
C39_SetLeftValue ==
    /\ event.op = "set"
    /\ event.kind = "published"
    /\ event.value = Some(42)
    /\ DictHas(all_metrics, KeyLimit)
    /\ DictGet(all_metrics, KeyLimit).value # Some(42)
    /\ DictGet(all_metrics, KeyLimit).value # None
    /\ conn.published[Len(conn.published)].payload = ValuePayload(42)

(***************************************************************************)
(* Silent metrics and repeated silence passes                              *)
(***************************************************************************)
\* The callbacks for the metric among those handed to the event loop.
UpdateCallbacks(queue, key) ==
    SelectSeq(queue, LAMBDA cb : cb.cb = "on_update" /\ cb.key = key)

\* C40: without update frequency, the silence pass that takes the value of
\* a metric with an update callback hands the loop exactly one callback for
\* it, with null; and a silence pass that finds a metric without a value
\* hands the loop no callback for it.
C40_OneNullNotificationPerSilence ==
    [][(event'.op = "keepalive" /\ event'.kind = "metrics") =>
         \A i \in 1..Len(all_metrics) :
            LET key == all_metrics[i][1]
                self == all_metrics[i][2]
                after == DictGet(all_metrics', key)
                scheduled == UpdateCallbacks(loop_queue', key)
            IN  /\ self.value = None => scheduled = <<>>
                /\ (self.value # None /\ after.value = None /\ self.on_update)
                      => /\ Len(scheduled) = 1
                         /\ scheduled[1].value = None]_vars

\* The third silence pass has run: the power lost its value in an earlier
\* pass, its callback was told null then, no reading has come since, and
\* this pass handed the loop nothing.
C40_LaterPassSilent ==
    /\ event.op = "keepalive" /\ event.kind = "metrics"
    /\ keepalive_count = 6
    /\ DictHas(all_metrics, KeyPower)
    /\ DictGet(all_metrics, KeyPower).on_update
    /\ DictGet(all_metrics, KeyPower).value = None
    /\ DictGet(all_metrics, KeyPower).notified = Some(None)
    /\ DictGet(all_metrics, KeyPower).last_update < now
    /\ loop_queue = <<>>

====
